---------------------------- MODULE Spec2Model ----------------------------
(***************************************************************************)
(* Silver Metrics Tracker: the normalization and composite-scoring engine  *)
(* (scripts/normalize.py), the threshold table (scripts/config.py), the    *)
(* part of the storage layer the normalizers read (scripts/db.py), and the *)
(* update cycle's process_and_export (main.py, scripts/export_json.py).    *)
(*                                                                         *)
(* Numbers.  Python floats are modelled by scaled integers, so that every  *)
(* comparison of the code is an exact integer comparison:                  *)
(*   - percentages (lease rate, premium) are in tenths of a percent:       *)
(*     3.0 % is 30, 15.0 % is 150;                                         *)
(*   - inventory is in troy ounces; a value "in Moz" is the same integer   *)
(*     read against thresholds multiplied by MOZ (400.0 Moz is 400 * MOZ); *)
(*   - prices and margins are in dollars, the Shanghai premium in tenths   *)
(*     of a dollar per ounce; time is in whole days.                       *)
(* An optional number or string (None, SQL NULL) is <<>> or <<x>>.         *)
(* Python dicts are functions on a set of strings; `k in d` is             *)
(* k \in DOMAIN d.  A raised exception is the value Raise(name).           *)
(***************************************************************************)
EXTENDS Integers, Sequences, FiniteSets, TLC

VARIABLES
    call,       \* the call at hand: [fn |-> name, <argument> |-> value, ...]
    pc,         \* "idle" (no call yet), "called" (call entered), "returned"
    ret,        \* what the call returned (or Raise(..)), once pc = "returned"
    inventory,  \* table inventory: rows in insertion order
    now,        \* the clock, in whole days
    spot_prices,        \* table spot_prices
    premiums,           \* table premiums
    margins,            \* table margins
    lease_rates,        \* table lease_rates
    shanghai_premium,   \* table shanghai_premium
    metrics_snapshot,   \* table metrics_snapshot
    cycle,      \* process_and_export: its position and its local `metrics`
    files,      \* docs/data: what latest.json, historical.json and
                \* badge.json hold (<<>>: not written yet)
    observations_seen,
                \* history: for each row of metrics_snapshot, the number of
                \* Observations stored when its metrics were computed
    run         \* main: its arguments, its position and its locals

\* what the normalizers of the first sections never touch
rest ==
    <<spot_prices, premiums, margins, lease_rates, shanghai_premium,
      metrics_snapshot, cycle, files, observations_seen, run>>

vars == <<call, pc, ret, inventory, now, rest>>

NoCall == [fn |-> "none"]
NoReturn == <<>>
Raise(exc) == [exception |-> exc]
Raised(r) == "exception" \in DOMAIN r

(***************************************************************************)
(* Bounds of the model.                                                    *)
(***************************************************************************)
\* breakpoints of an arbitrary ThresholdSet range over 1..MaxBreak
MaxBreak == 3

(***************************************************************************)
(* scripts/normalize.py: determine_status                                  *)
(***************************************************************************)
\* The chain with the least severe test first: what a reordering of the
\* elif chain would compute.
determine_status_reordered(value, thresholds, higher_is_worse) ==
    IF higher_is_worse
    THEN IF "normal_high" \in DOMAIN thresholds /\ value > thresholds["normal_high"]
         THEN <<"yellow", "Elevated">>
         ELSE IF "stressed" \in DOMAIN thresholds /\ value >= thresholds["stressed"]
         THEN <<"red", "Stressed">>
         ELSE IF "extreme" \in DOMAIN thresholds /\ value >= thresholds["extreme"]
         THEN <<"red", "Extreme">>
         ELSE <<"green", "Normal">>
    ELSE IF "healthy" \in DOMAIN thresholds /\ value < thresholds["healthy"]
         THEN IF "normal_low" \in DOMAIN thresholds /\ value >= thresholds["normal_low"]
              THEN <<"yellow", "Watchable">>
              ELSE <<"yellow", "Low">>
         ELSE IF "stressed" \in DOMAIN thresholds /\ value <= thresholds["stressed"]
         THEN <<"red", "Stressed">>
         ELSE IF "critical" \in DOMAIN thresholds /\ value <= thresholds["critical"]
         THEN <<"red", "Critical">>
         ELSE <<"green", "Healthy">>

\* The yellow tests with the comparison of the red tests (>= for >, <= for <).
determine_status_inclusive(value, thresholds, higher_is_worse) ==
    IF higher_is_worse
    THEN IF "extreme" \in DOMAIN thresholds /\ value >= thresholds["extreme"]
         THEN <<"red", "Extreme">>
         ELSE IF "stressed" \in DOMAIN thresholds /\ value >= thresholds["stressed"]
         THEN <<"red", "Stressed">>
         ELSE IF "normal_high" \in DOMAIN thresholds /\ value >= thresholds["normal_high"]
         THEN <<"yellow", "Elevated">>
         ELSE <<"green", "Normal">>
    ELSE IF "critical" \in DOMAIN thresholds /\ value <= thresholds["critical"]
         THEN <<"red", "Critical">>
         ELSE IF "stressed" \in DOMAIN thresholds /\ value <= thresholds["stressed"]
         THEN <<"red", "Stressed">>
         ELSE IF "healthy" \in DOMAIN thresholds /\ value <= thresholds["healthy"]
         THEN IF "normal_low" \in DOMAIN thresholds /\ value >= thresholds["normal_low"]
              THEN <<"yellow", "Watchable">>
              ELSE <<"yellow", "Low">>
         ELSE <<"green", "Healthy">>

determine_status(value, thresholds, higher_is_worse) ==
    IF higher_is_worse
    THEN IF "extreme" \in DOMAIN thresholds /\ value >= thresholds["extreme"]
         THEN <<"red", "Extreme">>
         ELSE IF "stressed" \in DOMAIN thresholds /\ value >= thresholds["stressed"]
         THEN <<"red", "Stressed">>
         ELSE IF "normal_high" \in DOMAIN thresholds /\ value > thresholds["normal_high"]
         THEN <<"yellow", "Elevated">>
         ELSE <<"green", "Normal">>
    ELSE \* Lower is worse (e.g., inventory)
         IF "critical" \in DOMAIN thresholds /\ value <= thresholds["critical"]
         THEN <<"red", "Critical">>
         ELSE IF "stressed" \in DOMAIN thresholds /\ value <= thresholds["stressed"]
         THEN <<"red", "Stressed">>
         ELSE IF "healthy" \in DOMAIN thresholds /\ value < thresholds["healthy"]
         THEN \* Yellow zone: between normal_low and healthy
              IF "normal_low" \in DOMAIN thresholds /\ value >= thresholds["normal_low"]
              THEN <<"yellow", "Watchable">>
              ELSE <<"yellow", "Low">>
         ELSE <<"green", "Healthy">>

(***************************************************************************)
(* The classifier on its own: every call of determine_status with a value, *)
(* a direction and a ThresholdSet holding any subset of the keys it reads. *)
(***************************************************************************)
ClassifierKeys ==
    {"extreme", "stressed", "normal_high", "critical", "healthy", "normal_low"}
ThresholdSets == UNION {[K -> 1..MaxBreak] : K \in SUBSET ClassifierKeys}
ClassifyValues == 0..(MaxBreak + 1)

DetermineStatusCalls ==
    {[fn |-> "determine_status", value |-> value, thresholds |-> thresholds,
      higher_is_worse |-> higher_is_worse] :
        value \in ClassifyValues, thresholds \in ThresholdSets,
        higher_is_worse \in BOOLEAN}

NoCycle == [pc |-> "idle"]
NoFiles == [latest |-> <<>>, historical |-> <<>>, badge |-> <<>>]
NoRun == [pc |-> "idle"]

InitStore ==
    /\ inventory = <<>>
    /\ now = 0
    /\ spot_prices = <<>>
    /\ premiums = <<>>
    /\ margins = <<>>
    /\ lease_rates = <<>>
    /\ shanghai_premium = <<>>
    /\ metrics_snapshot = <<>>
    /\ cycle = NoCycle
    /\ files = NoFiles
    /\ observations_seen = <<>>
    /\ run = NoRun

InitClassify ==
    /\ call \in DetermineStatusCalls
    /\ pc = "called"
    /\ ret = NoReturn
    /\ InitStore

ReturnDetermineStatus ==
    /\ pc = "called"
    /\ call.fn = "determine_status"
    /\ ret' = determine_status(call.value, call.thresholds, call.higher_is_worse)
    /\ pc' = "returned"
    /\ UNCHANGED <<call, inventory, now, rest>>

NextClassify == ReturnDetermineStatus

SpecClassify == InitClassify /\ [][NextClassify]_vars

(***************************************************************************)
(* C1.  determine_status returns exactly the (color, label) of the chain:  *)
(* higher-is-worse: extreme present and value >= extreme -> red/Extreme;   *)
(* else stressed present and value >= stressed -> red/Stressed; else       *)
(* normal_high present and value > normal_high -> yellow/Elevated; else    *)
(* green/Normal.  lower-is-worse: critical present and value <= critical   *)
(* -> red/Critical; else stressed present and value <= stressed ->         *)
(* red/Stressed; else healthy present and value < healthy ->               *)
(* yellow/Watchable if normal_low present and value >= normal_low,         *)
(* otherwise yellow/Low; else green/Healthy.  It never raises: the call    *)
(* returns a pair for every subset of keys, the empty ThresholdSet too     *)
(* (a key is read only behind its own presence test).                      *)
(***************************************************************************)
Defined(t, k) == k \in DOMAIN t

ChainHigher(v, t) ==
    CASE Defined(t, "extreme") /\ v >= t["extreme"] -> <<"red", "Extreme">>
      [] ~(Defined(t, "extreme") /\ v >= t["extreme"])
         /\ Defined(t, "stressed") /\ v >= t["stressed"] -> <<"red", "Stressed">>
      [] ~(Defined(t, "extreme") /\ v >= t["extreme"])
         /\ ~(Defined(t, "stressed") /\ v >= t["stressed"])
         /\ Defined(t, "normal_high") /\ v > t["normal_high"] -> <<"yellow", "Elevated">>
      [] OTHER -> <<"green", "Normal">>

ChainLower(v, t) ==
    CASE Defined(t, "critical") /\ v <= t["critical"] -> <<"red", "Critical">>
      [] ~(Defined(t, "critical") /\ v <= t["critical"])
         /\ Defined(t, "stressed") /\ v <= t["stressed"] -> <<"red", "Stressed">>
      [] ~(Defined(t, "critical") /\ v <= t["critical"])
         /\ ~(Defined(t, "stressed") /\ v <= t["stressed"])
         /\ Defined(t, "healthy") /\ v < t["healthy"]
         /\ Defined(t, "normal_low") /\ v >= t["normal_low"] -> <<"yellow", "Watchable">>
      [] ~(Defined(t, "critical") /\ v <= t["critical"])
         /\ ~(Defined(t, "stressed") /\ v <= t["stressed"])
         /\ Defined(t, "healthy") /\ v < t["healthy"]
         /\ ~(Defined(t, "normal_low") /\ v >= t["normal_low"]) -> <<"yellow", "Low">>
      [] OTHER -> <<"green", "Healthy">>

C1_StatusIsChain ==
    (pc = "returned" /\ call.fn = "determine_status") =>
        ret = IF call.higher_is_worse
              THEN ChainHigher(call.value, call.thresholds)
              ELSE ChainLower(call.value, call.thresholds)

\* a lower-is-worse call below healthy with normal_low absent: yellow/Low
C1_Witness ==
    /\ pc = "returned"
    /\ call.fn = "determine_status"
    /\ ~call.higher_is_worse
    /\ "healthy" \in DOMAIN call.thresholds
    /\ "normal_low" \notin DOMAIN call.thresholds
    /\ ret = <<"yellow", "Low">>

(***************************************************************************)
(* C2.  determine_status is monotonic in severity (green < yellow < red):  *)
(* for every ThresholdSet and all values v1 <= v2, higher-is-worse: the    *)
(* color of v2 is never less severe than the color of v1; lower-is-worse:  *)
(* the color of v1 is never less severe than the color of v2.              *)
(***************************************************************************)
Severity(color) == CASE color = "green" -> 0 [] color = "yellow" -> 1 [] color = "red" -> 2

C2_StatusMonotonic ==
    (pc = "returned" /\ call.fn = "determine_status") =>
        \A v2 \in ClassifyValues :
            LET other == determine_status(v2, call.thresholds, call.higher_is_worse)
            IN  /\ (call.higher_is_worse /\ call.value <= v2)
                        => Severity(other[1]) >= Severity(ret[1])
                /\ (call.higher_is_worse /\ v2 <= call.value)
                        => Severity(ret[1]) >= Severity(other[1])
                /\ (~call.higher_is_worse /\ call.value <= v2)
                        => Severity(ret[1]) >= Severity(other[1])
                /\ (~call.higher_is_worse /\ v2 <= call.value)
                        => Severity(other[1]) >= Severity(ret[1])

\* a ThresholdSet whose breakpoints are in the wrong order, classified red
C2_Witness ==
    /\ pc = "returned"
    /\ call.fn = "determine_status"
    /\ call.higher_is_worse
    /\ DOMAIN call.thresholds = ClassifierKeys
    /\ call.thresholds["extreme"] < call.thresholds["stressed"]
    /\ call.thresholds["stressed"] < call.thresholds["normal_high"]
    /\ call.value < call.thresholds["normal_high"]
    /\ ret[1] = "red"

(***************************************************************************)
(* scripts/config.py: COMPOSITE_THRESHOLDS                                 *)
(* scripts/normalize.py: calculate_composite_score                         *)
(*                                                                         *)
(* A metric mapping is a dict name -> data, where data is None or a dict.  *)
(***************************************************************************)
COMPOSITE_THRESHOLDS == [easing |-> 4, mixed |-> 2, stressed |-> 1]

None == [py_none |-> TRUE]
\* Python truth value of None or a dict: None and {} are false
Truthy(data) == data # None /\ DOMAIN data # {}

\* the loop over metrics.items(): normalizing_count and total_metrics
CountMetrics_every_entry(metrics) ==
    LET counted == {name \in DOMAIN metrics : Truthy(metrics[name])}
    IN  [total_metrics |-> Cardinality(counted),
         normalizing_count |->
            Cardinality({name \in counted :
                            /\ "is_normalizing" \in DOMAIN metrics[name]
                            /\ metrics[name]["is_normalizing"]})]

CountMetrics(metrics) ==
    LET counted == {name \in DOMAIN metrics :
                        /\ Truthy(metrics[name])
                        /\ "is_normalizing" \in DOMAIN metrics[name]}
    IN  [total_metrics |-> Cardinality(counted),
         normalizing_count |->
            Cardinality({name \in counted : metrics[name]["is_normalizing"]})]

\* "Use thresholds from config": the if/elif/else on normalizing_count
CompositeBand_strict(normalizing_count) ==
    IF normalizing_count > COMPOSITE_THRESHOLDS["easing"]
    THEN [color |-> "green", label |-> "Market Easing"]
    ELSE IF normalizing_count > COMPOSITE_THRESHOLDS["mixed"]
    THEN [color |-> "yellow", label |-> "Mixed Signals"]
    ELSE [color |-> "red", label |-> "Market Stress"]

CompositeBand_equal(normalizing_count) ==
    IF normalizing_count = COMPOSITE_THRESHOLDS["easing"]
    THEN [color |-> "green", label |-> "Market Easing"]
    ELSE IF normalizing_count >= COMPOSITE_THRESHOLDS["mixed"]
    THEN [color |-> "yellow", label |-> "Mixed Signals"]
    ELSE [color |-> "red", label |-> "Market Stress"]

CompositeBand(normalizing_count) ==
    IF normalizing_count >= COMPOSITE_THRESHOLDS["easing"]
    THEN [color |-> "green", label |-> "Market Easing"]
    ELSE IF normalizing_count >= COMPOSITE_THRESHOLDS["mixed"]
    THEN [color |-> "yellow", label |-> "Mixed Signals"]
    ELSE [color |-> "red", label |-> "Market Stress"]

\* round(ratio * 100, 1), in tenths of a percent; the division is by
\* total_metrics, as in ratio = normalizing_count / total_metrics
Percentage(normalizing_count, total_metrics) ==
    (2000 * normalizing_count + total_metrics) \div (2 * total_metrics)

\* the function without its total_metrics == 0 return: 0 / 0 raises
calculate_composite_score_unguarded(metrics) ==
    LET c == CountMetrics(metrics)
        band == CompositeBand(c.normalizing_count)
    IN  IF c.total_metrics = 0
        THEN Raise("ZeroDivisionError")
        ELSE [score |-> c.normalizing_count,
              total |-> c.total_metrics,
              percentage |-> Percentage(c.normalizing_count, c.total_metrics),
              status_color |-> band.color,
              status_label |-> band.label,
              description |-> <<c.normalizing_count, c.total_metrics,
                                "indicators normalizing">>]

calculate_composite_score(metrics) ==
    LET c == CountMetrics(metrics)
        band == CompositeBand(c.normalizing_count)
    IN  IF c.total_metrics = 0
        THEN [score |-> 0,
              total |-> 0,
              status_color |-> "gray",
              status_label |-> "No Data",
              description |-> <<"Insufficient data">>]
        ELSE [score |-> c.normalizing_count,
              total |-> c.total_metrics,
              percentage |-> Percentage(c.normalizing_count, c.total_metrics),
              status_color |-> band.color,
              status_label |-> band.label,
              description |-> <<c.normalizing_count, c.total_metrics,
                                "indicators normalizing">>]

(***************************************************************************)
(* The aggregator on its own: every call of calculate_composite_score with *)
(* a mapping over the five stress metrics, each absent, None, an empty     *)
(* dict, a dict without the flag, or a dict with the flag true or false.   *)
(***************************************************************************)
StressMetrics == {"premium", "inventory", "margin", "lease_rate", "shanghai_premium"}
MetricData ==
    {None, <<>>, [status_color |-> "green"],
     [is_normalizing |-> TRUE], [is_normalizing |-> FALSE]}
MetricMappings == UNION {[K -> MetricData] : K \in SUBSET StressMetrics}
CompositeCalls ==
    {[fn |-> "calculate_composite_score", metrics |-> metrics] :
        metrics \in MetricMappings}

InitComposite ==
    /\ call \in CompositeCalls
    /\ pc = "called"
    /\ ret = NoReturn
    /\ InitStore

ReturnCompositeScore ==
    /\ pc = "called"
    /\ call.fn = "calculate_composite_score"
    /\ ret' = calculate_composite_score(call.metrics)
    /\ pc' = "returned"
    /\ UNCHANGED <<call, inventory, now, rest>>

NextComposite == ReturnCompositeScore

SpecComposite == InitComposite /\ [][NextComposite]_vars

\* What the claims call counted and normalizing, read off the mapping.
IsCounted(m, name) ==
    /\ name \in DOMAIN m
    /\ m[name] # None
    /\ "is_normalizing" \in DOMAIN m[name]
CountedIn(m) == {name \in StressMetrics : IsCounted(m, name)}
NormalizingIn(m) == {name \in CountedIn(m) : m[name]["is_normalizing"] = TRUE}
CompositeReturned == pc = "returned" /\ call.fn = "calculate_composite_score"

(***************************************************************************)
(* C3 (as stated).  With total >= 1 the color is the band of the ratio     *)
(* score/total: ratio >= 0.75 green, else >= 0.5 yellow, else >= 0.25      *)
(* orange, else red, whatever the absolute counts.                         *)
(***************************************************************************)
RatioBand(score, total) ==
    CASE 4 * score >= 3 * total -> "green"
      [] 4 * score < 3 * total /\ 2 * score >= total -> "yellow"
      [] 2 * score < total /\ 4 * score >= total -> "orange"
      [] OTHER -> "red"

C4_ThreeOfFourEasing ==
    (CompositeReturned /\ Cardinality(CountedIn(call.metrics)) = 4) =>
        LET score == Cardinality(NormalizingIn(call.metrics))
        IN  /\ score >= 3 => (ret.status_color = "green"
                              /\ ret.status_label = "Market Easing")
            /\ score = 2 => (ret.status_color = "yellow"
                             /\ ret.status_label = "Mixed Signals")
            /\ score <= 1 => (ret.status_color = "red"
                              /\ ret.status_label = "Market Stress")

(***************************************************************************)
(* C5.  total is the number of entries that are present, non-null and      *)
(* carry an is_normalizing flag; score is the number of those whose flag   *)
(* is true; missing, null and flagless entries change neither; so          *)
(* 0 <= score <= total.                                                    *)
(***************************************************************************)
C5_CountsOnlyFlagged ==
    CompositeReturned =>
        /\ ~Raised(ret)
        /\ ret.total = Cardinality(CountedIn(call.metrics))
        /\ ret.score = Cardinality(NormalizingIn(call.metrics))
        /\ 0 <= ret.score /\ ret.score <= ret.total

\* a null shanghai_premium, a flagless entry, one normalizing, one not
C5_Witness ==
    /\ CompositeReturned
    /\ DOMAIN call.metrics = {"shanghai_premium", "premium", "margin", "lease_rate"}
    /\ call.metrics["shanghai_premium"] = None
    /\ call.metrics["premium"] = [status_color |-> "green"]
    /\ call.metrics["margin"] = [is_normalizing |-> TRUE]
    /\ call.metrics["lease_rate"] = [is_normalizing |-> FALSE]
    /\ ret.total = 2
    /\ ret.score = 1

(***************************************************************************)
(* C6.  When no metric is counted (an empty mapping, only null entries,    *)
(* ...) the result is gray / 'No Data' with score 0 and total 0, and the   *)
(* call does not raise.                                                    *)
(***************************************************************************)
C6_NoDataIsGray ==
    (CompositeReturned /\ CountedIn(call.metrics) = {}) =>
        /\ ~Raised(ret)
        /\ ret.status_color = "gray"
        /\ ret.status_label = "No Data"
        /\ ret.score = 0
        /\ ret.total = 0

\* a mapping of null entries only
C6_Witness ==
    /\ CompositeReturned
    /\ DOMAIN call.metrics = {"shanghai_premium", "margin"}
    /\ \A name \in DOMAIN call.metrics : call.metrics[name] = None
    /\ ret.status_color = "gray"

(***************************************************************************)
(* C7.  For a mapping M with at least one counted metric and a metric name *)
(* not counted in M, adding that metric with is_normalizing = true yields  *)
(* a color never worse than M's (green best, then yellow, orange, red).    *)
(***************************************************************************)
ColorRank(color) ==
    CASE color = "green" -> 0 [] color = "yellow" -> 1
      [] color = "orange" -> 2 [] color = "red" -> 3

WithNormalizing(m, name) ==
    [k \in DOMAIN m \cup {name} |->
        IF k = name THEN [is_normalizing |-> TRUE] ELSE m[k]]

C7_AddingNormalizingNeverWorsens ==
    (CompositeReturned /\ CountedIn(call.metrics) # {}) =>
        \A name \in StressMetrics \ CountedIn(call.metrics) :
            LET more == calculate_composite_score(WithNormalizing(call.metrics, name))
            IN  /\ ~Raised(more)
                /\ ColorRank(more.status_color) <= ColorRank(ret.status_color)

\* four of four normalizing, and a fifth metric still to add
C7_Witness ==
    /\ CompositeReturned
    /\ Cardinality(NormalizingIn(call.metrics)) = 4
    /\ StressMetrics \ CountedIn(call.metrics) # {}
    /\ ret.status_color = "green"

(***************************************************************************)
(* scripts/config.py: THRESHOLDS.  lease_rate and premium_pct are in       *)
(* tenths of a percent, the inventory sets in ounces (the configured Moz   *)
(* figure times MOZ), the margin stability set in days,                    *)
(* margin_pct_notional in percent, premium_usd_coins and shanghai_premium  *)
(* in tenths of a dollar per ounce.                                        *)
(***************************************************************************)
MOZ == 1000000

\* the table with two breakpoints of inventory_total exchanged
THRESHOLDS_unordered ==
    [lease_rate |->
        [normal_low |-> 3, normal_high |-> 30, watch |-> 50,
         stressed |-> 100, extreme |-> 200],
     premium_pct |->
        [normal_low |-> 50, normal_high |-> 150, watch |-> 200,
         stressed |-> 300, extreme |-> 500],
     premium_usd_coins |->
        [normal_low |-> 40, normal_high |-> 80, stressed |-> 150,
         extreme |-> 250],
     inventory_total |->
        [healthy |-> 400 * MOZ, normal_low |-> 350 * MOZ,
         stressed |-> 250 * MOZ, critical |-> 300 * MOZ],
     inventory_registered |->
        [healthy |-> 100 * MOZ, normal_low |-> 75 * MOZ,
         stressed |-> 50 * MOZ, critical |-> 30 * MOZ],
     margin_stability_days |->
        [stable |-> 30, normalizing |-> 14, volatile |-> 7],
     margin_pct_notional |->
        [normal_low |-> 7, normal_high |-> 9, elevated |-> 10, extreme |-> 12],
     shanghai_premium |->
        [normal_high |-> 20, elevated |-> 50, stressed |-> 80]]

THRESHOLDS ==
    [lease_rate |->
        [normal_low |-> 3, normal_high |-> 30, watch |-> 50,
         stressed |-> 100, extreme |-> 200],
     premium_pct |->
        [normal_low |-> 50, normal_high |-> 150, watch |-> 200,
         stressed |-> 300, extreme |-> 500],
     premium_usd_coins |->
        [normal_low |-> 40, normal_high |-> 80, stressed |-> 150,
         extreme |-> 250],
     inventory_total |->
        [healthy |-> 400 * MOZ, normal_low |-> 350 * MOZ,
         stressed |-> 300 * MOZ, critical |-> 250 * MOZ],
     inventory_registered |->
        [healthy |-> 100 * MOZ, normal_low |-> 75 * MOZ,
         stressed |-> 50 * MOZ, critical |-> 30 * MOZ],
     margin_stability_days |->
        [stable |-> 30, normalizing |-> 14, volatile |-> 7],
     margin_pct_notional |->
        [normal_low |-> 7, normal_high |-> 9, elevated |-> 10, extreme |-> 12],
     shanghai_premium |->
        [normal_high |-> 20, elevated |-> 50, stressed |-> 80]]

(***************************************************************************)
(* scripts/normalize.py: normalize_lease_rate, normalize_premium           *)
(***************************************************************************)
normalize_lease_rate(rate_pct) ==
    LET thresholds == THRESHOLDS["lease_rate"]
        status == determine_status(rate_pct, thresholds, TRUE)
        \* Determine if normalizing (trending toward normal)
        is_normalizing == rate_pct <= thresholds["normal_high"]
    IN  [metric |-> "lease_rate",
         value |-> rate_pct,
         unit |-> "%",
         status_color |-> status[1],
         status_label |-> status[2],
         is_normalizing |-> is_normalizing,
         threshold_normal |-> <<thresholds["normal_low"], thresholds["normal_high"]>>,
         description |-> "Cost to borrow physical silver"]

\* is_normalizing with < for <=
normalize_premium_strict(premium_pct) ==
    LET thresholds == THRESHOLDS["premium_pct"]
        status == determine_status(premium_pct, thresholds, TRUE)
        is_normalizing == premium_pct < thresholds["normal_high"]
    IN  [metric |-> "premium",
         value |-> premium_pct,
         unit |-> "% over spot",
         status_color |-> status[1],
         status_label |-> status[2],
         is_normalizing |-> is_normalizing,
         threshold_normal |-> <<thresholds["normal_low"], thresholds["normal_high"]>>,
         description |-> "Physical silver price vs paper/spot"]

normalize_premium(premium_pct) ==
    LET thresholds == THRESHOLDS["premium_pct"]
        status == determine_status(premium_pct, thresholds, TRUE)
        is_normalizing == premium_pct <= thresholds["normal_high"]
    IN  [metric |-> "premium",
         value |-> premium_pct,
         unit |-> "% over spot",
         status_color |-> status[1],
         status_label |-> status[2],
         is_normalizing |-> is_normalizing,
         threshold_normal |-> <<thresholds["normal_low"], thresholds["normal_high"]>>,
         description |-> "Physical silver price vs paper/spot"]

(***************************************************************************)
(* The two percentage normalizers on their own: every call with a rate or  *)
(* premium of -MaxBelowZero/10 % .. MaxLeaseRate/10 % (MaxPremium/10 %).   *)
(***************************************************************************)
MaxBelowZero == 10
MaxLeaseRate == 250
MaxPremium == 650

PercentCalls ==
    {[fn |-> "normalize_lease_rate", value |-> v] : v \in (0 - MaxBelowZero)..MaxLeaseRate}
    \cup {[fn |-> "normalize_premium", value |-> v] : v \in (0 - MaxBelowZero)..MaxPremium}

InitPercent ==
    /\ call \in PercentCalls
    /\ pc = "called"
    /\ ret = NoReturn
    /\ InitStore

ReturnLeaseRate ==
    /\ pc = "called"
    /\ call.fn = "normalize_lease_rate"
    /\ ret' = normalize_lease_rate(call.value)
    /\ pc' = "returned"
    /\ UNCHANGED <<call, inventory, now, rest>>

ReturnPremium ==
    /\ pc = "called"
    /\ call.fn = "normalize_premium"
    /\ ret' = normalize_premium(call.value)
    /\ pc' = "returned"
    /\ UNCHANGED <<call, inventory, now, rest>>

NextPercent == ReturnLeaseRate \/ ReturnPremium

SpecPercent == InitPercent /\ [][NextPercent]_vars

(***************************************************************************)
(* C8.  normalize_lease_rate and normalize_premium return is_normalizing = *)
(* (value <= normal_high of the metric's configured ThresholdSet) and the  *)
(* color and label of the higher-is-worse chain; under the configured      *)
(* thresholds is_normalizing is true exactly when the color is green       *)
(* (lease rate 1.5 % green and normalizing, 5.0 % yellow and not,          *)
(* 15.0 % red and not).                                                    *)
(***************************************************************************)
PercentReturned ==
    pc = "returned" /\ call.fn \in {"normalize_lease_rate", "normalize_premium"}
ConfiguredSet ==
    IF call.fn = "normalize_lease_rate"
    THEN THRESHOLDS["lease_rate"] ELSE THRESHOLDS["premium_pct"]

C9_PremiumFifteenIsYellow ==
    (pc = "returned" /\ call.fn = "normalize_premium") =>
        /\ (call.value >= 150 /\ call.value < 300) => ret.status_color = "yellow"
        /\ call.value = 50 => ret.status_color = "green"
        /\ call.value = 600 => ret.status_color = "red"

(***************************************************************************)
(* scripts/db.py: the inventory table, the clock, get_historical_data and  *)
(* get_inventory_trend.                                                    *)
(*                                                                         *)
(* A row is [timestamp |-> day, total_oz |-> ounces]; the table is the     *)
(* sequence of its rows in insertion order, which is ORDER BY timestamp    *)
(* ASC as the clock never goes back.  Timestamps are whole days: the       *)
(* column holds CURRENT_TIMESTAMP ('YYYY-MM-DD HH:MM:SS') and the query    *)
(* compares it as text with cutoff.isoformat() ('YYYY-MM-DDTHH:MM:SS...'); *)
(* ' ' sorts before 'T', so a row passes timestamp >= cutoff exactly when  *)
(* its date is later than the cutoff's date, whatever the time of day.     *)
(* (CURRENT_TIMESTAMP is UTC and datetime.now() is local time; the model   *)
(* takes the two clocks to agree, as on a host set to UTC.)                *)
(* get_historical_data is given the rows of the table it is asked for; its *)
(* callers pass only names of valid_tables, so its ValueError is not       *)
(* reachable from them.                                                    *)
(***************************************************************************)
MaxRows == 3
MaxDay == 14
ClockSteps == {7, 14}
RowLevels == {300 * MOZ, 305 * MOZ, 311 * MOZ}
RegisteredLevel == 80 * MOZ
QueryLimit == 1000
TrendDays == 14

\* INSERT INTO inventory: timestamp defaults to CURRENT_TIMESTAMP; returns
\* cursor.lastrowid
insert_inventory(registered_oz, eligible_oz, total_oz) ==
    /\ inventory' = Append(inventory,
                           [timestamp |-> now, registered_oz |-> registered_oz,
                            eligible_oz |-> eligible_oz, total_oz |-> total_oz])
    /\ call' = [fn |-> "insert_inventory", total_oz |-> total_oz]
    /\ ret' = Len(inventory) + 1
    /\ pc' = "returned"

\* the fetcher stores total = registered + eligible
InsertInventory ==
    \E total_oz \in RowLevels :
        /\ Len(inventory) < MaxRows
        /\ insert_inventory(RegisteredLevel, total_oz - RegisteredLevel, total_oz)
        /\ UNCHANGED <<now, rest>>

\* time passes between two calls
AdvanceClock ==
    \E d \in ClockSteps :
        /\ now + d <= MaxDay
        /\ now' = now + d
        /\ call' = NoCall
        /\ pc' = "idle"
        /\ ret' = NoReturn
        /\ UNCHANGED <<inventory, rest>>

AtOrAfterCutoff(row, cutoff) == row.timestamp > cutoff

get_historical_data(rows, days, limit) ==
    LET cutoff == now - days
        hits == SelectSeq(rows, LAMBDA row : AtOrAfterCutoff(row, cutoff))
    IN  SubSeq(hits, 1, IF Len(hits) < limit THEN Len(hits) ELSE limit)

\* round(x / 1_000_000, 2) of a count of ounces, in hundredths of a Moz
RoundMoz(oz) == (oz + 5000) \div 10000

\* the recovering band with >= for >
get_inventory_trend_inclusive(days) ==
    LET data == get_historical_data(inventory, days, QueryLimit)
    IN  IF Len(data) < 2
        THEN [trend |-> "unknown", change_moz |-> 0, data_points |-> Len(data)]
        ELSE LET first == data[1].total_oz
                 last == data[Len(data)].total_oz
                 change == last - first
                 trend == IF change >= 5 * MOZ THEN "recovering"
                          ELSE IF change < (0 - 5) * MOZ THEN "declining"
                          ELSE "stable"
             IN  [trend |-> trend,
                  change_moz |-> RoundMoz(change),
                  start_moz |-> RoundMoz(first),
                  end_moz |-> RoundMoz(last),
                  data_points |-> Len(data)]

get_inventory_trend(days) ==
    LET data == get_historical_data(inventory, days, QueryLimit)
    IN  IF Len(data) < 2
        THEN [trend |-> "unknown", change_moz |-> 0, data_points |-> Len(data)]
        ELSE LET first == data[1].total_oz
                 last == data[Len(data)].total_oz
                 change == last - first
                 \* change_moz = change / 1_000_000, compared with 5 and -5
                 trend == IF change > 5 * MOZ THEN "recovering"
                          ELSE IF change < (0 - 5) * MOZ THEN "declining"
                          ELSE "stable"
             IN  [trend |-> trend,
                  change_moz |-> RoundMoz(change),
                  start_moz |-> RoundMoz(first),
                  end_moz |-> RoundMoz(last),
                  data_points |-> Len(data)]

(***************************************************************************)
(* scripts/normalize.py: normalize_inventory.  total_moz is in ounces (see *)
(* the head of the module); registered_moz is <<>> for None and <<x>> for  *)
(* the float x.                                                            *)
(***************************************************************************)
\* a declining trend downgrades whatever the base color is
normalize_inventory_declining_any(total_moz, registered_moz) ==
    LET thresholds == THRESHOLDS["inventory_total"]
        status == determine_status(total_moz, thresholds, FALSE)
        trend == get_inventory_trend(TrendDays)
        trend_label == trend.trend
        color == IF trend_label = "recovering" /\ status[1] # "green"
                 THEN status[1]
                 ELSE IF trend_label = "declining" THEN "yellow"
                 ELSE status[1]
        label == IF trend_label = "recovering" /\ status[1] # "green"
                 THEN <<status[2], " (Recovering)">>
                 ELSE IF trend_label = "declining" THEN <<"Declining">>
                 ELSE <<status[2]>>
        result == [metric |-> "inventory",
                   value |-> total_moz,
                   unit |-> "M oz",
                   status_color |-> color,
                   status_label |-> label,
                   is_normalizing |->
                       (total_moz >= thresholds["healthy"] \/ trend_label = "recovering"),
                   threshold_normal |-> thresholds["healthy"],
                   trend |-> trend_label,
                   trend_change_moz |-> trend.change_moz,
                   description |-> "COMEX warehouse silver stocks"]
    IN  IF registered_moz # <<>>
        THEN result @@
             [registered_moz |-> registered_moz[1],
              registered_status |->
                determine_status(registered_moz[1],
                                 THRESHOLDS["inventory_registered"], FALSE)[2]]
        ELSE result

\* is_normalizing read off the displayed color instead of the value
normalize_inventory_by_color(total_moz, registered_moz) ==
    LET thresholds == THRESHOLDS["inventory_total"]
        status == determine_status(total_moz, thresholds, FALSE)
        trend == get_inventory_trend(TrendDays)
        trend_label == trend.trend
        color == IF trend_label = "declining" /\ status[1] = "green"
                 THEN "yellow" ELSE status[1]
        label == IF trend_label = "recovering" /\ status[1] # "green"
                 THEN <<status[2], " (Recovering)">>
                 ELSE IF trend_label = "declining" /\ status[1] = "green"
                 THEN <<"Declining">>
                 ELSE <<status[2]>>
        result == [metric |-> "inventory",
                   value |-> total_moz,
                   unit |-> "M oz",
                   status_color |-> color,
                   status_label |-> label,
                   is_normalizing |-> (color = "green" \/ trend_label = "recovering"),
                   threshold_normal |-> thresholds["healthy"],
                   trend |-> trend_label,
                   trend_change_moz |-> trend.change_moz,
                   description |-> "COMEX warehouse silver stocks"]
    IN  IF registered_moz # <<>>
        THEN result @@
             [registered_moz |-> registered_moz[1],
              registered_status |->
                determine_status(registered_moz[1],
                                 THRESHOLDS["inventory_registered"], FALSE)[2]]
        ELSE result

normalize_inventory(total_moz, registered_moz) ==
    LET thresholds == THRESHOLDS["inventory_total"]
        status == determine_status(total_moz, thresholds, FALSE)
        is_recovering == total_moz >= thresholds["healthy"]
        \* Check trend
        trend == get_inventory_trend(TrendDays)
        trend_label == trend.trend
        \* Adjust status based on trend
        color == IF trend_label = "recovering" /\ status[1] # "green"
                 THEN status[1]
                 ELSE IF trend_label = "declining" /\ status[1] = "green"
                 THEN "yellow"
                 ELSE status[1]
        \* the label is the sequence of the pieces the f-string joins
        label == IF trend_label = "recovering" /\ status[1] # "green"
                 THEN <<status[2], " (Recovering)">>
                 ELSE IF trend_label = "declining" /\ status[1] = "green"
                 THEN <<"Declining">>
                 ELSE <<status[2]>>
        result == [metric |-> "inventory",
                   value |-> total_moz,
                   unit |-> "M oz",
                   status_color |-> color,
                   status_label |-> label,
                   is_normalizing |-> (is_recovering \/ trend_label = "recovering"),
                   threshold_normal |-> thresholds["healthy"],
                   trend |-> trend_label,
                   trend_change_moz |-> trend.change_moz,
                   description |-> "COMEX warehouse silver stocks"]
    IN  \* Add registered breakdown if available
        IF registered_moz # <<>>
        THEN result @@
             [registered_moz |-> registered_moz[1],
              registered_status |->
                determine_status(registered_moz[1],
                                 THRESHOLDS["inventory_registered"], FALSE)[2]]
        ELSE result

(***************************************************************************)
(* The store and the inventory normalizer: rows are inserted, the clock    *)
(* advances, and normalize_inventory and get_inventory_trend are called    *)
(* (each call is one step: nothing else runs inside it).                   *)
(***************************************************************************)
TotalInputs ==
    {180 * MOZ, 250 * MOZ, 280 * MOZ, 300 * MOZ, 301 * MOZ,
     350 * MOZ, 399 * MOZ, 400 * MOZ, 450 * MOZ}
RegisteredInputs == {<<>>, <<80 * MOZ>>}

CallNormalizeInventory ==
    \E total_moz \in TotalInputs, registered_moz \in RegisteredInputs :
        /\ call' = [fn |-> "normalize_inventory", total_moz |-> total_moz,
                    registered_moz |-> registered_moz]
        /\ ret' = normalize_inventory(total_moz, registered_moz)
        /\ pc' = "returned"
        /\ UNCHANGED <<inventory, now, rest>>

CallGetInventoryTrend ==
    /\ call' = [fn |-> "get_inventory_trend", days |-> TrendDays]
    /\ ret' = get_inventory_trend(TrendDays)
    /\ pc' = "returned"
    /\ UNCHANGED <<inventory, now, rest>>

Init ==
    /\ call = NoCall
    /\ pc = "idle"
    /\ ret = NoReturn
    /\ InitStore

Next ==
    \/ InsertInventory
    \/ AdvanceClock
    \/ CallNormalizeInventory
    \/ CallGetInventoryTrend

Spec == Init /\ [][Next]_vars

(***************************************************************************)
(* C10.  For every total inventory value and every trend outcome           *)
(* (recovering, declining, stable, unknown) normalize_inventory returns    *)
(* is_normalizing = (value >= healthy) OR (trend = recovering); a value    *)
(* >= healthy with a declining trend is still normalizing although its     *)
(* color is downgraded, and a value in the red band with a recovering      *)
(* trend is normalizing.                                                   *)
(***************************************************************************)
InventoryReturned == pc = "returned" /\ call.fn = "normalize_inventory"
\* the trend outcome of the store as it is: the call changes neither the
\* table nor the clock
TrendNow == get_inventory_trend(TrendDays).trend
Healthy == THRESHOLDS["inventory_total"]["healthy"]

C10_NormalizingByValueOrTrend ==
    InventoryReturned =>
        /\ ~Raised(ret)
        /\ ret.trend = TrendNow
        /\ ret.trend \in {"recovering", "declining", "stable", "unknown"}
        /\ ret.is_normalizing = (call.total_moz >= Healthy \/ ret.trend = "recovering")
        /\ (call.total_moz >= Healthy /\ ret.trend = "declining")
                => (ret.is_normalizing /\ ret.status_color = "yellow")
        /\ (call.total_moz <= THRESHOLDS["inventory_total"]["stressed"]
            /\ ret.trend = "recovering")
                => (ret.is_normalizing /\ ret.status_color = "red")

\* a total in the red band while the window's trend is recovering
C10_Witness ==
    /\ InventoryReturned
    /\ call.total_moz = 250 * MOZ
    /\ TrendNow = "recovering"
    /\ ret.status_color = "red"
    /\ ret.is_normalizing

(***************************************************************************)
(* C11.  In normalize_inventory the trend changes the base lower-is-worse  *)
(* classification only as follows: a recovering trend keeps the color and  *)
(* appends " (Recovering)" to the label exactly when the value is below    *)
(* healthy (the base color is not green); a declining trend changes the    *)
(* result only when the base color is green (value >= healthy), to         *)
(* yellow/"Declining"; stable and unknown trends change nothing; a red     *)
(* base color is never changed.                                            *)
(***************************************************************************)
BaseStatus == ChainLower(call.total_moz, THRESHOLDS["inventory_total"])

C11_TrendAdjustsBase ==
    InventoryReturned =>
        LET base_color == BaseStatus[1]
            base_label == BaseStatus[2]
        IN  /\ (base_color # "green") <=> (call.total_moz < Healthy)
            /\ ret.trend = "recovering" =>
                /\ ret.status_color = base_color
                /\ ret.status_label =
                     IF call.total_moz < Healthy
                     THEN <<base_label, " (Recovering)">> ELSE <<base_label>>
            /\ ret.trend = "declining" =>
                IF base_color = "green"
                THEN ret.status_color = "yellow" /\ ret.status_label = <<"Declining">>
                ELSE ret.status_color = base_color /\ ret.status_label = <<base_label>>
            /\ ret.trend \in {"stable", "unknown"} =>
                ret.status_color = base_color /\ ret.status_label = <<base_label>>
            /\ base_color = "red" => ret.status_color = "red"

\* a value in the red band while the window's trend is declining stays red
C11_Witness ==
    /\ InventoryReturned
    /\ call.total_moz = 280 * MOZ
    /\ ret.trend = "declining"
    /\ ret.status_color = "red"
    /\ ret.status_label = <<"Stressed">>

(***************************************************************************)
(* C12.  With no trend data (trend unknown), normalize_inventory under the *)
(* configured inventory_total thresholds classifies a total of 280 Moz as  *)
(* yellow and a total of 180 Moz as red.                                   *)
(***************************************************************************)
C12_LowInventoryIsYellow ==
    (InventoryReturned /\ ret.trend = "unknown") =>
        /\ call.total_moz = 280 * MOZ => ret.status_color = "yellow"
        /\ call.total_moz = 180 * MOZ => ret.status_color = "red"

(***************************************************************************)
(* scripts/normalize.py: normalize_shanghai_premium.  premium_usd is in    *)
(* tenths of a dollar per ounce.                                           *)
(***************************************************************************)
\* the green band with < for <=
normalize_shanghai_premium_strict(premium_usd) ==
    LET thresholds == THRESHOLDS["shanghai_premium"]
        status == IF premium_usd < thresholds["normal_high"]
                  THEN <<"green", "Normal", TRUE>>
                  ELSE IF premium_usd <= thresholds["elevated"]
                  THEN <<"yellow", "Elevated", FALSE>>
                  ELSE <<"red", "Stressed", FALSE>>
    IN  [metric |-> "shanghai_premium",
         value |-> premium_usd,
         unit |-> "$/oz",
         status_color |-> status[1],
         status_label |-> status[2],
         is_normalizing |-> status[3],
         threshold_normal |-> thresholds["normal_high"],
         description |-> "Shanghai vs Western silver price difference"]

normalize_shanghai_premium(premium_usd) ==
    LET thresholds == THRESHOLDS["shanghai_premium"]
        \* Determine status based on premium USD
        status == IF premium_usd <= thresholds["normal_high"]
                  THEN <<"green", "Normal", TRUE>>
                  ELSE IF premium_usd <= thresholds["elevated"]
                  THEN <<"yellow", "Elevated", FALSE>>
                  ELSE <<"red", "Stressed", FALSE>>
    IN  [metric |-> "shanghai_premium",
         value |-> premium_usd,
         unit |-> "$/oz",
         status_color |-> status[1],
         status_label |-> status[2],
         is_normalizing |-> status[3],
         threshold_normal |-> thresholds["normal_high"],
         description |-> "Shanghai vs Western silver price difference"]

(***************************************************************************)
(* The Shanghai normalizer on its own: every call with a premium of        *)
(* -MaxBelowZero/10 .. MaxShanghai/10 dollars per ounce.                   *)
(***************************************************************************)
MaxShanghai == 120

ShanghaiCalls ==
    {[fn |-> "normalize_shanghai_premium", value |-> v] :
        v \in (0 - MaxBelowZero)..MaxShanghai}

InitShanghai ==
    /\ call \in ShanghaiCalls
    /\ pc = "called"
    /\ ret = NoReturn
    /\ InitStore

ReturnShanghaiPremium ==
    /\ pc = "called"
    /\ call.fn = "normalize_shanghai_premium"
    /\ ret' = normalize_shanghai_premium(call.value)
    /\ pc' = "returned"
    /\ UNCHANGED <<call, inventory, now, rest>>

NextShanghai == ReturnShanghaiPremium

SpecShanghai == InitShanghai /\ [][NextShanghai]_vars

(***************************************************************************)
(* C13.  For every Shanghai premium in USD/oz normalize_shanghai_premium   *)
(* returns green/"Normal"/normalizing when value <= normal_high,           *)
(* yellow/"Elevated"/not normalizing when normal_high < value <= elevated, *)
(* and red/"Stressed"/not normalizing when value > elevated.               *)
(***************************************************************************)
ShanghaiReturned == pc = "returned" /\ call.fn = "normalize_shanghai_premium"

C13_ShanghaiThreeTiers ==
    ShanghaiReturned =>
        LET t == THRESHOLDS["shanghai_premium"]
            v == call.value
            got == <<ret.status_color, ret.status_label, ret.is_normalizing>>
        IN  /\ ~Raised(ret)
            /\ ret.value = v
            /\ v <= t["normal_high"] => got = <<"green", "Normal", TRUE>>
            /\ (t["normal_high"] < v /\ v <= t["elevated"])
                    => got = <<"yellow", "Elevated", FALSE>>
            /\ v > t["elevated"] => got = <<"red", "Stressed", FALSE>>

\* a premium of exactly normal_high, returned green and normalizing
C13_Witness ==
    /\ ShanghaiReturned
    /\ call.value = THRESHOLDS["shanghai_premium"]["normal_high"]
    /\ ret.status_color = "green"
    /\ ret.is_normalizing

(***************************************************************************)
(* scripts/db.py: the margins table and get_margin_last_change_date.       *)
(* A row is [timestamp, initial_margin, maintenance_margin] with the       *)
(* margins in dollars.  Rows are taken to carry distinct timestamps (one   *)
(* insert per second at most), so that ORDER BY timestamp is the insertion *)
(* order and the self-join on timestamp pairs each row with itself only.   *)
(***************************************************************************)
insert_margin(initial_margin, maintenance_margin) ==
    /\ margins' = Append(margins,
                         [timestamp |-> now, initial_margin |-> initial_margin,
                          maintenance_margin |-> maintenance_margin])
    /\ call' = [fn |-> "insert_margin", initial_margin |-> initial_margin]
    /\ ret' = Len(margins) + 1
    /\ pc' = "returned"

\* rows whose initial_margin differs from the row before (LAG), or that have
\* no row before; the newest of them, or <<>> for None on an empty table
get_margin_last_change_date ==
    LET changes == {i \in 1..Len(margins) :
                        \/ i = 1
                        \/ margins[i].initial_margin # margins[i - 1].initial_margin}
    IN  IF changes = {}
        THEN <<>>
        ELSE LET i == CHOOSE k \in changes : \A j \in changes : j <= k
             IN  <<margins[i].timestamp>>

(***************************************************************************)
(* scripts/normalize.py: normalize_margin.  initial_margin and spot_price  *)
(* are in dollars; spot_price and last_change_date are <<>> for None and   *)
(* <<x>> for the value x.  pct_notional = initial_margin / (5000 *         *)
(* spot_price) * 100 is compared by cross-multiplication (spot_price > 0). *)
(***************************************************************************)
ContractOz == 5000

PctAbove(initial_margin, spot_price, bound) ==
    initial_margin * 100 > bound * ContractOz * spot_price

\* round(pct_notional, 2), in hundredths of a percent
RoundPct(initial_margin, spot_price) ==
    LET den == ContractOz * spot_price
    IN  (2 * initial_margin * 10000 + den) \div (2 * den)

\* days_stable of the call: the argument if given, else the store's last
\* change, else 30
DaysStable(last_change_date) ==
    LET last == IF last_change_date = <<>>
                THEN get_margin_last_change_date ELSE last_change_date
    IN  IF last # <<>> THEN now - last[1] ELSE 30

MarginResult(initial_margin, spot_price, days_stable, status) ==
    LET thresholds == THRESHOLDS["margin_stability_days"]
        pct_thresholds == THRESHOLDS["margin_pct_notional"]
        result == [metric |-> "margin",
                   value |-> initial_margin,
                   unit |-> "USD",
                   days_since_change |-> days_stable,
                   status_color |-> status[1],
                   status_label |-> status[2],
                   is_normalizing |-> status[3],
                   threshold_stable |-> thresholds["stable"],
                   description |-> "CME initial margin for silver futures"]
    IN  IF spot_price # <<>> /\ spot_price[1] # 0
        THEN result @@
             [pct_of_notional |-> RoundPct(initial_margin, spot_price[1]),
              pct_threshold_normal |->
                <<pct_thresholds["normal_low"], pct_thresholds["normal_high"]>>]
        ELSE result

\* the green band with > for >=
StabilityStatus_strict(days_stable) ==
    LET thresholds == THRESHOLDS["margin_stability_days"]
    IN  IF days_stable > thresholds["stable"]
        THEN <<"green", "Stable", TRUE>>
        ELSE IF days_stable >= thresholds["normalizing"]
        THEN <<"yellow", "Stabilizing", TRUE>>
        ELSE <<"red", "Volatile", FALSE>>

\* Determine status based on stability
StabilityStatus(days_stable) ==
    LET thresholds == THRESHOLDS["margin_stability_days"]
    IN  IF days_stable >= thresholds["stable"]
        THEN <<"green", "Stable", TRUE>>
        ELSE IF days_stable >= thresholds["normalizing"]
        THEN <<"yellow", "Stabilizing", TRUE>>
        ELSE <<"red", "Volatile", FALSE>>

\* the elevated bound sets yellow whatever the stability color is
NotionalStatus_keeps_flag(initial_margin, spot_price, status) ==
    LET pct_thresholds == THRESHOLDS["margin_pct_notional"]
    IN  IF PctAbove(initial_margin, spot_price, pct_thresholds["extreme"])
        THEN IF status[1] # "red"
             THEN <<"red", "Elevated (High %)", status[3]>>
             ELSE status
        ELSE IF PctAbove(initial_margin, spot_price, pct_thresholds["elevated"])
        THEN IF status[1] = "green"
             THEN <<"yellow", "Watch (>10% notional)", status[3]>>
             ELSE status
        ELSE status

NotionalStatus_any_color(initial_margin, spot_price, status) ==
    LET pct_thresholds == THRESHOLDS["margin_pct_notional"]
    IN  IF PctAbove(initial_margin, spot_price, pct_thresholds["extreme"])
        THEN IF status[1] # "red"
             THEN <<"red", "Elevated (High %)", FALSE>>
             ELSE <<status[1], status[2], FALSE>>
        ELSE IF PctAbove(initial_margin, spot_price, pct_thresholds["elevated"])
        THEN <<"yellow", "Watch (>10% notional)", status[3]>>
        ELSE status

\* Check if margin % is elevated
NotionalStatus(initial_margin, spot_price, status) ==
    LET pct_thresholds == THRESHOLDS["margin_pct_notional"]
    IN  IF PctAbove(initial_margin, spot_price, pct_thresholds["extreme"])
        THEN IF status[1] # "red"
             THEN <<"red", "Elevated (High %)", FALSE>>
             ELSE <<status[1], status[2], FALSE>>
        ELSE IF PctAbove(initial_margin, spot_price, pct_thresholds["elevated"])
        THEN IF status[1] = "green"
             THEN <<"yellow", "Watch (>10% notional)", status[3]>>
             ELSE status
        ELSE status

normalize_margin(initial_margin, spot_price, last_change_date) ==
    LET days_stable == DaysStable(last_change_date)
        stability == StabilityStatus(days_stable)
        \* Calculate margin as % of notional (if spot price available)
        status == IF spot_price # <<>> /\ spot_price[1] # 0
                  THEN NotionalStatus(initial_margin, spot_price[1], stability)
                  ELSE stability
    IN  MarginResult(initial_margin, spot_price, days_stable, status)

(***************************************************************************)
(* The margins table and the margin normalizer: rows are inserted, the     *)
(* clock moves on to one of the days of MarginDays, and normalize_margin   *)
(* is called with and without a spot price and a last_change_date.         *)
(***************************************************************************)
MaxMarginRows == 2
MarginLevels == {15000, 20000}
MarginDays == {1, 14, 15, 30, 31}
SpotInputs == {<<>>, <<0>>, <<24>>, <<25>>, <<30>>}
LastChangeInputs == {<<>>, <<0>>, <<1>>}

InsertMargin ==
    \E initial_margin \in MarginLevels :
        /\ Len(margins) < MaxMarginRows
        /\ insert_margin(initial_margin, (initial_margin * 9) \div 10)
        /\ UNCHANGED <<inventory, now, spot_prices, premiums, lease_rates,
                       shanghai_premium, metrics_snapshot, cycle, files,
                       observations_seen, run>>

AdvanceClockMargin ==
    \E d \in MarginDays :
        /\ d > now
        /\ now' = d
        /\ call' = NoCall
        /\ pc' = "idle"
        /\ ret' = NoReturn
        /\ UNCHANGED <<inventory, rest>>

CallNormalizeMargin ==
    \E initial_margin \in MarginLevels, spot_price \in SpotInputs,
       last_change_date \in {l \in LastChangeInputs : l = <<>> \/ l[1] <= now} :
        /\ call' = [fn |-> "normalize_margin", initial_margin |-> initial_margin,
                    spot_price |-> spot_price, last_change_date |-> last_change_date]
        /\ ret' = normalize_margin(initial_margin, spot_price, last_change_date)
        /\ pc' = "returned"
        /\ UNCHANGED <<inventory, now, rest>>

InitMargin ==
    /\ call = NoCall
    /\ pc = "idle"
    /\ ret = NoReturn
    /\ InitStore

NextMargin ==
    \/ InsertMargin
    \/ AdvanceClockMargin
    \/ CallNormalizeMargin

SpecMargin == InitMargin /\ [][NextMargin]_vars

(***************************************************************************)
(* C14.  With no reference spot price, normalize_margin classifies         *)
(* days_since_change (the whole days between now and the last margin       *)
(* change) as: days >= stable (30) green/"Stable"/normalizing; else days   *)
(* >= normalizing (14) yellow/"Stabilizing"/normalizing; else red/         *)
(* "Volatile"/not normalizing.  With no margin change history in storage   *)
(* days_since_change is 30, which gives green/"Stable".                    *)
(***************************************************************************)
MarginReturned == pc = "returned" /\ call.fn = "normalize_margin"
NoSpot(spot_price) == spot_price = <<>> \/ spot_price = <<0>>
MarginGot == <<ret.status_color, ret.status_label, ret.is_normalizing>>

\* the newest row of the table that starts a new initial_margin
LastChangeRow ==
    CHOOSE i \in 1..Len(margins) :
        /\ i = 1 \/ margins[i].initial_margin # margins[i - 1].initial_margin
        /\ \A j \in (i + 1)..Len(margins) :
               margins[j].initial_margin = margins[j - 1].initial_margin

C14_StabilityBands ==
    (MarginReturned /\ NoSpot(call.spot_price)) =>
        LET days == ret.days_since_change
        IN  /\ ~Raised(ret)
            /\ "pct_of_notional" \notin DOMAIN ret
            /\ days = IF call.last_change_date # <<>>
                      THEN now - call.last_change_date[1]
                      ELSE IF margins = <<>> THEN 30
                      ELSE now - margins[LastChangeRow].timestamp
            /\ days >= 30 => MarginGot = <<"green", "Stable", TRUE>>
            /\ (days >= 14 /\ days < 30) => MarginGot = <<"yellow", "Stabilizing", TRUE>>
            /\ days < 14 => MarginGot = <<"red", "Volatile", FALSE>>
            /\ (margins = <<>> /\ call.last_change_date = <<>>)
                    => (days = 30 /\ MarginGot = <<"green", "Stable", TRUE>>)

\* the last change read from the store is exactly 30 days old
C14_Witness ==
    /\ MarginReturned
    /\ call.spot_price = <<>>
    /\ call.last_change_date = <<>>
    /\ Len(margins) = 2
    /\ margins[1].initial_margin # margins[2].initial_margin
    /\ now - margins[2].timestamp = 30
    /\ ret.status_color = "green"

(***************************************************************************)
(* C15.  The percent-of-notional check of normalize_margin only worsens    *)
(* the stability-based result: the final color is at least as severe as    *)
(* the stability-only color; a percentage above the extreme bound gives    *)
(* red and is_normalizing = false; a percentage above the elevated bound   *)
(* but not above extreme changes the color only from green to yellow and   *)
(* leaves is_normalizing unchanged; a stability-based red never becomes    *)
(* yellow or green.                                                        *)
(***************************************************************************)
C15_NotionalOnlyWorsens ==
    (MarginReturned /\ ~NoSpot(call.spot_price)) =>
        LET base == StabilityStatus(ret.days_since_change)
            margin100 == call.initial_margin * 100
            notional == ContractOz * call.spot_price[1]
            extreme == margin100 > 12 * notional
            elevated == margin100 > 10 * notional /\ ~extreme
        IN  /\ ~Raised(ret)
            /\ Severity(ret.status_color) >= Severity(base[1])
            /\ extreme => (ret.status_color = "red" /\ ret.is_normalizing = FALSE)
            /\ elevated =>
                /\ ret.is_normalizing = base[3]
                /\ ret.status_color =
                     IF base[1] = "green" THEN "yellow" ELSE base[1]
            /\ (~extreme /\ ~elevated) => MarginGot = base
            /\ base[1] = "red" => ret.status_color = "red"

\* stable for 30 days, yet margin at 12.5 % of notional: red
C15_Witness ==
    /\ MarginReturned
    /\ call.initial_margin = 15000
    /\ call.spot_price = <<24>>
    /\ ret.days_since_change >= 30
    /\ ret.status_color = "red"
    /\ ret.status_label = "Elevated (High %)"
    /\ ~ret.is_normalizing

(***************************************************************************)
(* C16.  For every time-ordered inventory series restricted to the window, *)
(* get_inventory_trend returns trend "unknown" with change 0 when fewer    *)
(* than 2 points lie in the window; otherwise change = last value - first  *)
(* value of the window (in millions of ounces) and trend is "recovering"   *)
(* iff change > 5, "declining" iff change < -5, "stable" otherwise (a      *)
(* change of exactly +5 or -5 is stable).                                  *)
(***************************************************************************)
TrendReturned == pc = "returned" /\ call.fn = "get_inventory_trend"
\* the rows of the table the query's window holds, oldest first
InWindow == SelectSeq(inventory, LAMBDA row : row.timestamp > now - call.days)

C16_TrendFromWindowEnds ==
    TrendReturned =>
        LET n == Len(InWindow)
            change == InWindow[n].total_oz - InWindow[1].total_oz
        IN  /\ ~Raised(ret)
            /\ ret.data_points = n
            /\ n < 2 => (ret.trend = "unknown" /\ ret.change_moz = 0)
            /\ n >= 2 =>
                /\ ret.change_moz * 10000 - 5000 <= change
                /\ change < ret.change_moz * 10000 + 5000
                /\ (ret.trend = "recovering") <=> (change > 5 * MOZ)
                /\ (ret.trend = "declining") <=> (change < (0 - 5) * MOZ)
                /\ (ret.trend = "stable") <=>
                        (change >= (0 - 5) * MOZ /\ change <= 5 * MOZ)
                /\ ret.trend \in {"recovering", "declining", "stable"}

\* three rows in the window, the ends exactly 5 Moz apart: stable
C16_Witness ==
    /\ TrendReturned
    /\ Len(InWindow) = 3
    /\ InWindow[3].total_oz - InWindow[1].total_oz = 5 * MOZ
    /\ InWindow[2].total_oz = 311 * MOZ
    /\ ret.trend = "stable"

(***************************************************************************)
(* scripts/db.py: the other Observation tables and the snapshot table.     *)
(* Prices are in dollars, premium_pct and rate_pct in tenths of a percent, *)
(* the Shanghai premium_usd in tenths of a dollar.  As for margins, the    *)
(* rows of a table carry distinct timestamps, so ORDER BY timestamp DESC   *)
(* LIMIT 1 is the row inserted last.                                       *)
(***************************************************************************)
insert_spot_price(source, price_usd, change_pct_24h) ==
    /\ spot_prices' = Append(spot_prices,
                             [timestamp |-> now, source |-> source,
                              price_usd |-> price_usd,
                              change_pct_24h |-> change_pct_24h])
    /\ call' = [fn |-> "insert_spot_price", price_usd |-> price_usd]
    /\ ret' = Len(spot_prices) + 1
    /\ pc' = "returned"

insert_premium(source, spot_price, physical_price, premium_usd, premium_pct) ==
    /\ premiums' = Append(premiums,
                          [timestamp |-> now, source |-> source,
                           spot_price |-> spot_price,
                           physical_price |-> physical_price,
                           premium_usd |-> premium_usd,
                           premium_pct |-> premium_pct])
    /\ call' = [fn |-> "insert_premium", premium_pct |-> premium_pct]
    /\ ret' = Len(premiums) + 1
    /\ pc' = "returned"

insert_lease_rate(source, rate_type, rate_pct) ==
    /\ lease_rates' = Append(lease_rates,
                             [timestamp |-> now, source |-> source,
                              rate_type |-> rate_type, rate_pct |-> rate_pct])
    /\ call' = [fn |-> "insert_lease_rate", rate_pct |-> rate_pct]
    /\ ret' = Len(lease_rates) + 1
    /\ pc' = "returned"

insert_shanghai_premium(shanghai_spot, western_spot, premium_usd, premium_pct) ==
    /\ shanghai_premium' = Append(shanghai_premium,
                                  [timestamp |-> now,
                                   shanghai_spot |-> shanghai_spot,
                                   western_spot |-> western_spot,
                                   premium_usd |-> premium_usd,
                                   premium_pct |-> premium_pct])
    /\ call' = [fn |-> "insert_shanghai_premium", premium_usd |-> premium_usd]
    /\ ret' = Len(shanghai_premium) + 1
    /\ pc' = "returned"

\* the row added to metrics_snapshot: id is AUTOINCREMENT, timestamp is
\* CURRENT_TIMESTAMP, the columns are data.get(column).  A column (and a
\* .get() of a number or string) is <<>> for NULL/None and <<x>> for x.
SnapshotColumns ==
    {"spot_price", "premium_pct", "inventory_total_moz",
     "inventory_registered_moz", "margin_initial", "margin_days_stable",
     "lease_rate_proxy", "shanghai_premium_usd", "status_premiums",
     "status_inventory", "status_margins", "status_lease", "status_shanghai",
     "composite_score"}

Get(d, k) == IF k \in DOMAIN d THEN <<d[k]>> ELSE <<>>

\* the INSERT with two of its fourteen values exchanged
SnapshotRow_swapped(data) ==
    [id |-> Len(metrics_snapshot) + 1, timestamp |-> now]
    @@ [c \in SnapshotColumns |->
            LET from == IF c = "status_lease" THEN "status_margins"
                        ELSE IF c = "status_margins" THEN "status_lease"
                        ELSE c
            IN  IF from \in DOMAIN data THEN data[from] ELSE <<>>]

SnapshotRow(data) ==
    [id |-> Len(metrics_snapshot) + 1, timestamp |-> now]
    @@ [c \in SnapshotColumns |-> IF c \in DOMAIN data THEN data[c] ELSE <<>>]

\* SELECT * FROM <table> ORDER BY timestamp DESC LIMIT 1; None on no row
get_latest(rows) == IF rows = <<>> THEN None ELSE rows[Len(rows)]

(***************************************************************************)
(* scripts/normalize.py: get_current_metrics.  The metrics dict is built   *)
(* key by key; each part below is the dict of the keys one block of the    *)
(* function adds (<<>> when the block adds none).                          *)
(***************************************************************************)
PlaceholderLeaseRate == 25
LeaseDays == 1

SpotPart ==
    LET spot == get_latest(spot_prices)
    IN  IF Truthy(spot)
        THEN [spot_price |->
                [value |-> spot.price_usd,
                 change_24h |-> spot.change_pct_24h,
                 source |-> spot.source,
                 timestamp |-> spot.timestamp]]
        ELSE <<>>

PremiumPart ==
    LET premium == get_latest(premiums)
    IN  IF Truthy(premium)
        THEN [premium |->
                normalize_premium(premium.premium_pct)
                @@ [raw |-> [spot |-> premium.spot_price,
                             physical |-> premium.physical_price,
                             usd |-> premium.premium_usd]]]
        ELSE <<>>

\* total_moz = total_oz / 1_000_000: the same number of ounces, read in Moz
InventoryPart ==
    LET latest == get_latest(inventory)
    IN  IF Truthy(latest)
        THEN [inventory |->
                normalize_inventory(latest.total_oz, <<latest.registered_oz>>)
                @@ [raw |-> [total_oz |-> latest.total_oz,
                             registered_oz |-> latest.registered_oz,
                             eligible_oz |-> latest.eligible_oz]]]
        ELSE <<>>

\* Margins (pass spot price for % of notional calculation)
MarginPart ==
    LET spot == get_latest(spot_prices)
        spot_price_value == IF Truthy(spot) THEN <<spot.price_usd>> ELSE <<>>
        margin == get_latest(margins)
    IN  IF Truthy(margin)
        THEN [margin |->
                normalize_margin(margin.initial_margin, spot_price_value, <<>>)
                @@ [raw |-> [initial |-> margin.initial_margin,
                             maintenance |-> margin.maintenance_margin]]]
        ELSE <<>>

LeasePart ==
    LET lease_data == get_historical_data(lease_rates, LeaseDays, QueryLimit)
    IN  IF lease_data # <<>>
        THEN LET latest_lease == lease_data[Len(lease_data)]
             IN  [lease_rate |->
                    normalize_lease_rate(latest_lease.rate_pct)
                    @@ [raw |-> [rate |-> latest_lease.rate_pct,
                                 source |-> latest_lease.source]]]
        ELSE \* Placeholder if no lease data
             [lease_rate |->
                normalize_lease_rate(PlaceholderLeaseRate)
                @@ [raw |-> [rate |-> PlaceholderLeaseRate,
                             source |-> "placeholder"]]]

ShanghaiPart ==
    LET shanghai == get_latest(shanghai_premium)
    IN  IF Truthy(shanghai)
        THEN [shanghai_premium |->
                normalize_shanghai_premium(shanghai.premium_usd)
                @@ [raw |-> [shanghai_spot |-> shanghai.shanghai_spot,
                             western_spot |-> shanghai.western_spot,
                             premium_pct |-> shanghai.premium_pct]]]
        ELSE [shanghai_premium |-> None]

get_current_metrics ==
    LET metrics == SpotPart @@ PremiumPart @@ InventoryPart @@ MarginPart
                   @@ LeasePart @@ ShanghaiPart
        \* Composite score - now includes 5 metrics
        stress_metrics == [k \in DOMAIN metrics \cap StressMetrics |-> metrics[k]]
    IN  metrics @@ [composite |-> calculate_composite_score(stress_metrics),
                    last_updated |-> now]

(***************************************************************************)
(* scripts/normalize.py: create_snapshot.  metrics.get(k, {}) is           *)
(* Sub(metrics, k), and .get(field) of it is Get(.., field).               *)
(***************************************************************************)
Sub(metrics, k) == IF k \in DOMAIN metrics THEN metrics[k] ELSE <<>>

\* composite_score adds up over the snapshots already stored
snapshot_data_accumulating(metrics) ==
    LET has_shanghai == "shanghai_premium" \in DOMAIN metrics
                        /\ Truthy(metrics["shanghai_premium"])
    IN  [spot_price |-> Get(Sub(metrics, "spot_price"), "value"),
         premium_pct |-> Get(Sub(metrics, "premium"), "value"),
         inventory_total_moz |-> Get(Sub(metrics, "inventory"), "value"),
         inventory_registered_moz |-> Get(Sub(metrics, "inventory"), "registered_moz"),
         margin_initial |-> Get(Sub(metrics, "margin"), "value"),
         margin_days_stable |-> Get(Sub(metrics, "margin"), "days_since_change"),
         lease_rate_proxy |-> Get(Sub(metrics, "lease_rate"), "value"),
         shanghai_premium_usd |->
            IF has_shanghai THEN Get(metrics["shanghai_premium"], "value") ELSE <<>>,
         status_premiums |-> Get(Sub(metrics, "premium"), "status_color"),
         status_inventory |-> Get(Sub(metrics, "inventory"), "status_color"),
         status_margins |-> Get(Sub(metrics, "margin"), "status_color"),
         status_lease |-> Get(Sub(metrics, "lease_rate"), "status_color"),
         status_shanghai |->
            IF has_shanghai THEN Get(metrics["shanghai_premium"], "status_color") ELSE <<>>,
         composite_score |->
            <<metrics["composite"]["score"] + Len(metrics_snapshot)>>]

snapshot_data(metrics) ==
    LET has_shanghai == "shanghai_premium" \in DOMAIN metrics
                        /\ Truthy(metrics["shanghai_premium"])
    IN  [spot_price |-> Get(Sub(metrics, "spot_price"), "value"),
         premium_pct |-> Get(Sub(metrics, "premium"), "value"),
         inventory_total_moz |-> Get(Sub(metrics, "inventory"), "value"),
         inventory_registered_moz |-> Get(Sub(metrics, "inventory"), "registered_moz"),
         margin_initial |-> Get(Sub(metrics, "margin"), "value"),
         margin_days_stable |-> Get(Sub(metrics, "margin"), "days_since_change"),
         lease_rate_proxy |-> Get(Sub(metrics, "lease_rate"), "value"),
         shanghai_premium_usd |->
            IF has_shanghai THEN Get(metrics["shanghai_premium"], "value") ELSE <<>>,
         status_premiums |-> Get(Sub(metrics, "premium"), "status_color"),
         status_inventory |-> Get(Sub(metrics, "inventory"), "status_color"),
         status_margins |-> Get(Sub(metrics, "margin"), "status_color"),
         status_lease |-> Get(Sub(metrics, "lease_rate"), "status_color"),
         status_shanghai |->
            IF has_shanghai THEN Get(metrics["shanghai_premium"], "status_color") ELSE <<>>,
         composite_score |-> Get(Sub(metrics, "composite"), "score")]

\* insert_metrics_snapshot(snapshot_data); returns cursor.lastrowid
create_snapshot(metrics) ==
    /\ metrics_snapshot' = Append(metrics_snapshot, SnapshotRow(snapshot_data(metrics)))
    /\ ret' = Len(metrics_snapshot) + 1

(***************************************************************************)
(* The store and the snapshot builder: Observations are inserted into the  *)
(* six tables and the clock moves on to one of the days of SnapshotDays.   *)
(* Under SpecMetrics get_current_metrics is called on the store; under     *)
(* SpecSnapshot the snapshot builder runs (get_current_metrics followed by *)
(* create_snapshot, with nothing in between).                              *)
(***************************************************************************)
MaxObservations == 2
MaxSnapshots == 2
SnapshotDays == {1, 14}
SpotLevels == {30}
PremiumLevels == {200}
SnapshotTotals == {300 * MOZ, 450 * MOZ}
LeaseLevels == {15, 50}
ShanghaiLevels == {60}

ObservationCount ==
    Len(spot_prices) + Len(premiums) + Len(inventory) + Len(margins)
    + Len(lease_rates) + Len(shanghai_premium)

ObserveSpotPrice ==
    \E price_usd \in SpotLevels :
        /\ ObservationCount < MaxObservations
        /\ insert_spot_price("goldapi", price_usd, <<>>)
        /\ UNCHANGED <<inventory, now, premiums, margins, lease_rates,
                       shanghai_premium, metrics_snapshot, cycle, files,
                       observations_seen, run>>

ObservePremium ==
    \E premium_pct \in PremiumLevels :
        /\ ObservationCount < MaxObservations
        /\ insert_premium("dealer", 30, 30 + (3 * premium_pct) \div 100,
                          (3 * premium_pct) \div 100, premium_pct)
        /\ UNCHANGED <<inventory, now, spot_prices, margins, lease_rates,
                       shanghai_premium, metrics_snapshot, cycle, files,
                       observations_seen, run>>

ObserveInventory ==
    \E total_oz \in SnapshotTotals :
        /\ ObservationCount < MaxObservations
        /\ insert_inventory(RegisteredLevel, total_oz - RegisteredLevel, total_oz)
        /\ UNCHANGED <<now, rest>>

ObserveMargin ==
    /\ ObservationCount < MaxObservations
    /\ InsertMargin

ObserveLeaseRate ==
    \E rate_pct \in LeaseLevels :
        /\ ObservationCount < MaxObservations
        /\ insert_lease_rate("futures_curve", "implied", rate_pct)
        /\ UNCHANGED <<inventory, now, spot_prices, premiums, margins,
                       shanghai_premium, metrics_snapshot, cycle, files,
                       observations_seen, run>>

ObserveShanghaiPremium ==
    \E premium_usd \in ShanghaiLevels :
        /\ ObservationCount < MaxObservations
        /\ insert_shanghai_premium(300 + premium_usd, 300, premium_usd,
                                   (premium_usd * 10) \div 3)
        /\ UNCHANGED <<inventory, now, spot_prices, premiums, margins,
                       lease_rates, metrics_snapshot, cycle, files,
                       observations_seen, run>>

Observe ==
    \/ ObserveSpotPrice
    \/ ObservePremium
    \/ ObserveInventory
    \/ ObserveMargin
    \/ ObserveLeaseRate
    \/ ObserveShanghaiPremium

AdvanceClockSnapshot ==
    \E d \in SnapshotDays :
        /\ d > now
        /\ now' = d
        /\ call' = NoCall
        /\ pc' = "idle"
        /\ ret' = NoReturn
        /\ UNCHANGED <<inventory, rest>>

CallGetCurrentMetrics ==
    /\ call' = [fn |-> "get_current_metrics"]
    /\ ret' = get_current_metrics
    /\ pc' = "returned"
    /\ UNCHANGED <<inventory, now, rest>>

\* metrics = get_current_metrics(); create_snapshot(metrics)
RunSnapshotBuilder ==
    /\ Len(metrics_snapshot) < MaxSnapshots
    /\ create_snapshot(get_current_metrics)
    /\ call' = [fn |-> "create_snapshot"]
    /\ pc' = "returned"
    /\ observations_seen' = Append(observations_seen, ObservationCount)
    /\ UNCHANGED <<inventory, now, spot_prices, premiums, margins, lease_rates,
                   shanghai_premium, cycle, files, run>>

InitSnapshot ==
    /\ call = NoCall
    /\ pc = "idle"
    /\ ret = NoReturn
    /\ InitStore

NextMetrics ==
    \/ Observe
    \/ AdvanceClockSnapshot
    \/ CallGetCurrentMetrics

SpecMetrics == InitSnapshot /\ [][NextMetrics]_vars

NextSnapshot ==
    \/ Observe
    \/ AdvanceClockSnapshot
    \/ RunSnapshotBuilder

SpecSnapshot == InitSnapshot /\ [][NextSnapshot]_vars

(***************************************************************************)
(* C17.  For each of the five stress metrics and every storage state: if   *)
(* storage holds no Observation for that metric, get_current_metrics does  *)
(* not raise, returns no NormalizedMetric for it (absent or null), and the *)
(* composite's total does not count it, while the other metrics are still  *)
(* computed.                                                               *)
(***************************************************************************)
MetricsReturned == pc = "returned" /\ call.fn = "get_current_metrics"

TableOf(name) ==
    CASE name = "premium" -> premiums
      [] name = "inventory" -> inventory
      [] name = "margin" -> margins
      [] name = "lease_rate" -> lease_rates
      [] name = "shanghai_premium" -> shanghai_premium

Stored == {name \in StressMetrics : TableOf(name) # <<>>}

C17_MissingObservationOmitted ==
    MetricsReturned =>
        /\ ~Raised(ret)
        /\ \A name \in StressMetrics \ Stored :
                name \notin DOMAIN ret \/ ret[name] = None
        /\ \A name \in Stored :
                name \in DOMAIN ret /\ ret[name] # None
        /\ ret.composite.total = Cardinality(Stored)

(***************************************************************************)
(* C18.  In every storage state that holds at least one Observation for a  *)
(* metric, get_current_metrics normalizes the most recently stored         *)
(* Observation of that metric, whatever its age and however many are       *)
(* stored; in particular the lease_rate value is the rate of the newest    *)
(* stored lease-rate Observation.                                          *)
(***************************************************************************)
Newest(rows) == rows[Len(rows)]

C18_NormalizesNewestObservation ==
    MetricsReturned =>
        /\ premiums # <<>> =>
              ret.premium.value = Newest(premiums).premium_pct
        /\ inventory # <<>> =>
              ret.inventory.value = Newest(inventory).total_oz
        /\ margins # <<>> =>
              ret.margin.value = Newest(margins).initial_margin
        /\ shanghai_premium # <<>> =>
              ret.shanghai_premium.value = Newest(shanghai_premium).premium_usd
        /\ lease_rates # <<>> =>
              ret.lease_rate.value = Newest(lease_rates).rate_pct

(***************************************************************************)
(* C19 (as stated).  Running the snapshot builder (get_current_metrics     *)
(* followed by create_snapshot) twice with no Observation inserted in      *)
(* between persists                                                        *)
(* two Snapshot rows whose metric fields (values, margin_days_stable,      *)
(* status colors, composite_score) are identical; only id and timestamp    *)
(* differ.  The first run's own snapshot insert does not influence the     *)
(* second run's metrics.                                                   *)
(***************************************************************************)
MetricFields(row) == [c \in SnapshotColumns |-> row[c]]

\* rows i and i + 1 come from two runs with no Observation inserted between
ConsecutiveRuns(i) ==
    /\ i \in 1..(Len(metrics_snapshot) - 1)
    /\ observations_seen[i] = observations_seen[i + 1]

\* whatever the clock did between the two runs
C19_BuilderIdempotent ==
    \A i \in 1..(Len(metrics_snapshot) - 1) :
        ConsecutiveRuns(i) =>
            /\ MetricFields(metrics_snapshot[i]) = MetricFields(metrics_snapshot[i + 1])
            /\ metrics_snapshot[i].id # metrics_snapshot[i + 1].id

(***************************************************************************)
(* C19 (amended).  Two runs of the snapshot builder with no Observation    *)
(* inserted in between and the same clock reading at both persist two rows *)
(* with identical metric fields; only id and timestamp differ, and the     *)
(* first run's snapshot insert does not influence the second run.          *)
(***************************************************************************)
C19_BuilderIdempotentSameDay ==
    \A i \in 1..(Len(metrics_snapshot) - 1) :
        (ConsecutiveRuns(i)
         /\ metrics_snapshot[i].timestamp = metrics_snapshot[i + 1].timestamp) =>
            /\ MetricFields(metrics_snapshot[i]) = MetricFields(metrics_snapshot[i + 1])
            /\ metrics_snapshot[i].id # metrics_snapshot[i + 1].id

\* two runs on the same day over a store with a margin and a lease rate
C19_Witness ==
    /\ Len(metrics_snapshot) = 2
    /\ ConsecutiveRuns(1)
    /\ metrics_snapshot[1].timestamp = metrics_snapshot[2].timestamp
    /\ margins # <<>>
    /\ lease_rates # <<>>
    /\ metrics_snapshot[2].margin_days_stable # <<>>
    /\ MetricFields(metrics_snapshot[1]) = MetricFields(metrics_snapshot[2])

(***************************************************************************)
(* scripts/export_json.py: export_latest_json, export_historical_json,     *)
(* export_status_badge_json, as the content of the file each writes.       *)
(***************************************************************************)
HistoryDays == 90
MaxRecords == 100

export_latest_json(metrics) ==
    [generated_at |-> now, version |-> "1.0", metrics |-> metrics]

\* data[-100:]
LastRecords(data) ==
    SubSeq(data, IF Len(data) > MaxRecords THEN Len(data) - MaxRecords + 1 ELSE 1,
           Len(data))

TableHistory(name, rows) ==
    LET data == get_historical_data(rows, HistoryDays, QueryLimit)
    IN  IF data # <<>>
        THEN [t \in {name} |-> [count |-> Len(data), records |-> LastRecords(data)]]
        ELSE <<>>

export_historical_json ==
    LET snapshots == get_historical_data(metrics_snapshot, HistoryDays, QueryLimit)
    IN  [generated_at |-> now,
         days_included |-> HistoryDays,
         data |-> (IF snapshots # <<>>
                   THEN [snapshots |-> [records |-> snapshots]] ELSE <<>>)
                  @@ TableHistory("spot_prices", spot_prices)
                  @@ TableHistory("premiums", premiums)
                  @@ TableHistory("inventory", inventory)
                  @@ TableHistory("margins", margins)]

\* Map colors to shields.io format
color_map ==
    [green |-> "brightgreen", yellow |-> "yellow", orange |-> "orange",
     red |-> "red", gray |-> "lightgrey"]

export_status_badge_json(metrics) ==
    LET composite == Sub(metrics, "composite")
        score == IF "score" \in DOMAIN composite THEN composite["score"] ELSE 0
        total == IF "total" \in DOMAIN composite THEN composite["total"] ELSE 4
        color == IF "status_color" \in DOMAIN composite
                 THEN composite["status_color"] ELSE "gray"
    IN  [schemaVersion |-> 1,
         label |-> "Silver Market",
         message |-> <<score, "/", total, " normalizing">>,
         color |-> IF color \in DOMAIN color_map THEN color_map[color] ELSE "lightgrey"]

(***************************************************************************)
(* scripts/export_json.py: export_all.  It computes the metrics itself,    *)
(* stores a Snapshot of them when create_new_snapshot is set, and writes   *)
(* the three files; historical.json is read from the store after that      *)
(* insert (the primed tables).                                             *)
(***************************************************************************)
export_all(create_new_snapshot) ==
    LET metrics == get_current_metrics
    IN  /\ IF create_new_snapshot
           THEN /\ metrics_snapshot' =
                      Append(metrics_snapshot, SnapshotRow(snapshot_data(metrics)))
                /\ observations_seen' = Append(observations_seen, ObservationCount)
           ELSE UNCHANGED <<metrics_snapshot, observations_seen>>
        /\ files' = [latest |-> export_latest_json(metrics),
                     historical |-> export_historical_json',
                     badge |-> export_status_badge_json(metrics)]

(***************************************************************************)
(* main.py: process_and_export, one step per call that reads or writes the *)
(* store or the files: get_current_metrics, create_snapshot, and           *)
(* export_all(create_new_snapshot=False), which calls get_current_metrics  *)
(* itself.  Other writers insert Observations and the clock moves between  *)
(* the steps.  An exception raised by any of the calls (the database or    *)
(* the output directory failing) is caught and the function returns False. *)
(***************************************************************************)
\* metrics = get_current_metrics()
GetMetricsStep ==
    /\ cycle.pc \in {"idle", "done", "failed"}
    /\ Len(metrics_snapshot) < MaxSnapshots
    /\ cycle' = [pc |-> "have_metrics", metrics |-> get_current_metrics,
                 seen |-> ObservationCount]
    /\ call' = [fn |-> "process_and_export"]
    /\ pc' = "called"
    /\ ret' = NoReturn
    /\ UNCHANGED <<inventory, now, spot_prices, premiums, margins, lease_rates,
                   shanghai_premium, metrics_snapshot, files, observations_seen,
                   run>>

\* snapshot_id = create_snapshot(metrics)
CreateSnapshotStep ==
    /\ cycle.pc = "have_metrics"
    /\ metrics_snapshot' =
          Append(metrics_snapshot, SnapshotRow(snapshot_data(cycle.metrics)))
    /\ observations_seen' = Append(observations_seen, cycle.seen)
    /\ cycle' = [pc |-> "have_snapshot", metrics |-> cycle.metrics,
                 snapshot_id |-> Len(metrics_snapshot) + 1]
    /\ call' = [fn |-> "process_and_export"]
    /\ pc' = "called"
    /\ ret' = NoReturn
    /\ UNCHANGED <<inventory, now, spot_prices, premiums, margins, lease_rates,
                   shanghai_premium, files, run>>

\* export_all called with its default, create_new_snapshot=True
ExportAllStep_new_snapshot ==
    /\ cycle.pc = "have_snapshot"
    /\ UNCHANGED <<inventory, now, spot_prices, premiums, margins, lease_rates,
                   shanghai_premium, run>>
    /\ export_all(TRUE)
    /\ cycle' = [pc |-> "done", metrics |-> cycle.metrics,
                 snapshot_id |-> cycle.snapshot_id]
    /\ call' = [fn |-> "process_and_export"]
    /\ pc' = "returned"
    /\ ret' = TRUE

\* files = export_all(create_new_snapshot=False); return True
ExportAllStep ==
    /\ cycle.pc = "have_snapshot"
    /\ UNCHANGED <<inventory, now, spot_prices, premiums, margins, lease_rates,
                   shanghai_premium, run>>
    /\ export_all(FALSE)
    /\ cycle' = [pc |-> "done", metrics |-> cycle.metrics,
                 snapshot_id |-> cycle.snapshot_id]
    /\ call' = [fn |-> "process_and_export"]
    /\ pc' = "returned"
    /\ ret' = TRUE

\* except Exception as e: ...; return False
ExceptStep ==
    /\ \/ cycle.pc \in {"idle", "done", "failed"}
          /\ Len(metrics_snapshot) < MaxSnapshots
       \/ cycle.pc \in {"have_metrics", "have_snapshot"}
    /\ cycle' = [pc |-> "failed"]
    /\ call' = [fn |-> "process_and_export"]
    /\ pc' = "returned"
    /\ ret' = FALSE
    /\ UNCHANGED <<inventory, now, spot_prices, premiums, margins, lease_rates,
                   shanghai_premium, metrics_snapshot, files, observations_seen,
                   run>>

process_and_export ==
    \/ GetMetricsStep
    \/ CreateSnapshotStep
    \/ ExportAllStep
    \/ ExceptStep

NextCycle ==
    \/ Observe
    \/ AdvanceClockSnapshot
    \/ process_and_export

SpecCycle == InitSnapshot /\ [][NextCycle]_vars

(***************************************************************************)
(* C20.  In every update cycle (process_and_export) the metric values,     *)
(* status colors and composite score persisted in that cycle's Snapshot    *)
(* are the same as those handed to the export layer (latest.json,          *)
(* badge.json) in the same cycle, under every interleaving of the cycle's  *)
(* steps with Observation inserts by other writers and with clock advance. *)
(***************************************************************************)
C20_SnapshotAgreesWithExport ==
    cycle.pc = "done" =>
        LET row == metrics_snapshot[cycle.snapshot_id]
            exported == snapshot_data(files.latest.metrics)
        IN  /\ \A c \in SnapshotColumns : row[c] = exported[c]
            /\ <<files.badge.message[1]>> = row.composite_score

(***************************************************************************)
(* scripts/fetch_spot_prices.py: fetch_spot_price.  What the two sources   *)
(* answer is an input: None or the data dict of the source.                *)
(***************************************************************************)
YahooData(price_usd) ==
    [source |-> "yahoo_finance", price_usd |-> price_usd, change_pct_24h |-> <<>>]
KitcoData(price_usd) ==
    [source |-> "kitco", price_usd |-> price_usd, change_pct_24h |-> <<>>]

YahooAnswers == {None} \cup {YahooData(p) : p \in SpotLevels}
KitcoAnswers == {None} \cup {KitcoData(p) : p \in SpotLevels}

\* the sources fetch_spot_price calls, in the order it calls them
SourcesTried(yahoo, kitco) ==
    IF yahoo = None THEN <<"yahoo_finance", "kitco">> ELSE <<"yahoo_finance">>

\* data = fetch_yahoo_spot(); if data is None: data = fetch_kitco_spot()
SpotData(yahoo, kitco) == IF yahoo = None THEN kitco ELSE yahoo

(***************************************************************************)
(* scripts/fetch_cme_margins.py: parse_margins_table and fetch_cme_margins.*)
(* The page is an input: None when the request failed, else what the       *)
(* parsers find in it: the silver amount matched by parse_margins_table    *)
(* (<<>> when none is) and the amounts between 10000 and 100000 found in   *)
(* the page text, largest first.                                           *)
(***************************************************************************)
EstimatedInitial == 45000

Pages ==
    {None} \cup
    {[parsed |-> p, candidates |-> c] :
        p \in {<<>>} \cup {<<m>> : m \in MarginLevels},
        c \in {<<>>, <<20000, 15000>>}}

\* the list of records, or <<>> for None
parse_margins_table(html) ==
    IF html.parsed # <<>>
    THEN <<[product |-> "SI",
            contract_type |-> "COMEX 5000 Silver Futures",
            initial |-> html.parsed[1],
            maintenance |-> (html.parsed[1] * 9) \div 10]>>
    ELSE <<>>

\* margins_list after the two fallbacks
MarginsList(html) ==
    LET margins_list == parse_margins_table(html)
        fallback == IF margins_list = <<>> /\ Len(html.candidates) >= 2
                    THEN <<[contract |-> "SI",
                            initial_margin |-> html.candidates[1],
                            maintenance_margin |-> html.candidates[2]]>>
                    ELSE margins_list
    IN  IF fallback = <<>>
        THEN <<[contract |-> "SI",
                initial_margin |-> EstimatedInitial,
                maintenance_margin |-> (EstimatedInitial * 9) \div 10]>>
        ELSE fallback

\* what fetch_cme_margins returns or raises; margin_data['initial_margin']
\* is read outside any try block
fetch_cme_margins_result(html) ==
    IF html = None
    THEN None
    ELSE LET margin_data == MarginsList(html)[1]
         IN  IF "initial_margin" \notin DOMAIN margin_data
             THEN Raise("KeyError")
             ELSE [contract |-> margin_data["contract"],
                   initial_margin |-> margin_data["initial_margin"],
                   maintenance_margin |-> margin_data["maintenance_margin"],
                   source |-> "CME"]

(***************************************************************************)
(* main.py: fetch_all_data.  Each of its six blocks is one step: the       *)
(* fetcher is called (what it answers is an input: a data dict, None, or   *)
(* an exception), a fetcher that has data stores its Observation, and the  *)
(* block records the result or the error.  The database accepts every      *)
(* insert, and the log line of a block reads keys that every data dict of  *)
(* its fetcher carries.                                                    *)
(***************************************************************************)
NoResults ==
    [spot_price |-> None, inventory |-> None, margins |-> None,
     premiums |-> None, lease_rates |-> None, shanghai_premium |-> None,
     errors |-> <<>>]

\* a block that drops the error of a fetcher that returned None
Fetched_none_unrecorded(results, key, outcome, failed, label) ==
    IF Raised(outcome)
    THEN [results EXCEPT !.errors = Append(@, <<label, outcome.exception>>)]
    ELSE [results EXCEPT ![key] = outcome]

\* try: results[key] = fetch(); if results[key]: log
\*      else: results['errors'].append(failed)
\* except Exception as e: results['errors'].append(f"{label}: {e}")
Fetched(results, key, outcome, failed, label) ==
    IF Raised(outcome)
    THEN [results EXCEPT !.errors = Append(@, <<label, outcome.exception>>)]
    ELSE IF Truthy(outcome)
    THEN [results EXCEPT ![key] = outcome]
    ELSE [results EXCEPT ![key] = outcome, !.errors = Append(@, <<failed>>)]

\* the block is over: main's position and locals, and the history of what
\* was invoked, what the outside answered and what the fetcher returned
Block(key, input, outcome, failed, label, next) ==
    run' = [run EXCEPT
                !.pc = next,
                !.fetch_results = Fetched(@, key, outcome, failed, label),
                !.invoked = Append(@, key),
                !.inputs = Append(@, input),
                !.outcomes = Append(@, outcome)]

\* a fetcher that stored nothing
NothingStored(fetcher) ==
    /\ call' = [fn |-> fetcher]
    /\ pc' = "returned"
    /\ ret' = NoReturn

FetcherFailures == {None, Raise("RuntimeError")}

\* fetch_lease_rate_proxy: proxy_rate = 2.5, in tenths of a percent
ProxyRate == 25

\* 1. Spot Price
FetchSpotPrice ==
    \E yahoo \in YahooAnswers, kitco \in KitcoAnswers :
        LET data == SpotData(yahoo, kitco)
        IN  /\ run.pc = "fetch_spot_price"
            /\ IF Truthy(data)
               THEN /\ insert_spot_price(data.source, data.price_usd,
                                         data.change_pct_24h)
                    /\ UNCHANGED <<inventory, premiums, margins, lease_rates,
                                   shanghai_premium>>
               ELSE /\ NothingStored("fetch_spot_price")
                    /\ UNCHANGED <<inventory, spot_prices, premiums, margins,
                                   lease_rates, shanghai_premium>>
            /\ Block("spot_price",
                     [yahoo |-> yahoo, kitco |-> kitco,
                      tried |-> SourcesTried(yahoo, kitco),
                      rows |-> Len(spot_prices)],
                     data, "Failed to fetch spot price", "Spot price: ",
                     "fetch_inventory")
            /\ UNCHANGED <<now, metrics_snapshot, cycle, files,
                           observations_seen>>

\* 2. CME Inventory
FetchInventory ==
    \E outcome \in FetcherFailures \cup
                   {[registered_oz |-> RegisteredLevel,
                     eligible_oz |-> t - RegisteredLevel,
                     total_oz |-> t, source |-> "CME"] : t \in SnapshotTotals} :
        /\ run.pc = "fetch_inventory"
        /\ IF ~Raised(outcome) /\ Truthy(outcome)
           THEN /\ insert_inventory(outcome.registered_oz, outcome.eligible_oz,
                                    outcome.total_oz)
                /\ UNCHANGED <<spot_prices, premiums, margins, lease_rates,
                               shanghai_premium>>
           ELSE /\ NothingStored("fetch_cme_stocks")
                /\ UNCHANGED <<inventory, spot_prices, premiums, margins,
                               lease_rates, shanghai_premium>>
        /\ Block("inventory", outcome, outcome, "Failed to fetch CME inventory",
                 "Inventory: ", "fetch_margins")
        /\ UNCHANGED <<now, metrics_snapshot, cycle, files, observations_seen>>

\* 3. CME Margins
FetchMargins ==
    \E html \in Pages :
        LET outcome == fetch_cme_margins_result(html)
        IN  /\ run.pc = "fetch_margins"
            /\ IF ~Raised(outcome) /\ Truthy(outcome)
               THEN /\ insert_margin(outcome.initial_margin,
                                     outcome.maintenance_margin)
                    /\ UNCHANGED <<inventory, spot_prices, premiums,
                                   lease_rates, shanghai_premium>>
               ELSE /\ NothingStored("fetch_cme_margins")
                    /\ UNCHANGED <<inventory, spot_prices, premiums, margins,
                                   lease_rates, shanghai_premium>>
            /\ Block("margins", [html |-> html, rows |-> Len(margins)], outcome,
                     "Failed to fetch CME margins", "Margins: ",
                     "fetch_premiums")
            /\ UNCHANGED <<now, metrics_snapshot, cycle, files,
                           observations_seen>>

\* 4. Physical Premiums
FetchPremiums ==
    \E outcome \in FetcherFailures \cup
                   {[source |-> "papervsphysical", spot_price |-> 30,
                     physical_price |-> 30 + (3 * p) \div 100,
                     premium_usd |-> (3 * p) \div 100,
                     premium_pct |-> p] : p \in PremiumLevels} :
        /\ run.pc = "fetch_premiums"
        /\ IF ~Raised(outcome) /\ Truthy(outcome)
           THEN /\ insert_premium(outcome.source, outcome.spot_price,
                                  outcome.physical_price, outcome.premium_usd,
                                  outcome.premium_pct)
                /\ UNCHANGED <<inventory, spot_prices, margins, lease_rates,
                               shanghai_premium>>
           ELSE /\ NothingStored("fetch_premiums")
                /\ UNCHANGED <<inventory, spot_prices, premiums, margins,
                               lease_rates, shanghai_premium>>
        /\ Block("premiums", outcome, outcome, "Failed to fetch premiums",
                 "Premiums: ", "fetch_lease_rates")
        /\ UNCHANGED <<now, metrics_snapshot, cycle, files, observations_seen>>

\* 5. Lease Rate Proxy
FetchLeaseRates ==
    \E outcome \in FetcherFailures \cup
                   {[source |-> "futures_curve_proxy",
                     rate_type |-> "implied_lease",
                     rate_pct |-> ProxyRate]} :
        /\ run.pc = "fetch_lease_rates"
        /\ IF ~Raised(outcome) /\ Truthy(outcome)
           THEN /\ insert_lease_rate(outcome.source, outcome.rate_type,
                                     outcome.rate_pct)
                /\ UNCHANGED <<inventory, spot_prices, premiums, margins,
                               shanghai_premium>>
           ELSE /\ NothingStored("fetch_lease_rate_proxy")
                /\ UNCHANGED <<inventory, spot_prices, premiums, margins,
                               lease_rates, shanghai_premium>>
        /\ Block("lease_rates", outcome, outcome,
                 "Failed to calculate lease rate proxy", "Lease rates: ",
                 "fetch_shanghai_premium")
        /\ UNCHANGED <<now, metrics_snapshot, cycle, files, observations_seen>>

\* 6. Shanghai Premium; return results
FetchShanghaiPremium ==
    \E outcome \in FetcherFailures \cup
                   {[shanghai_spot |-> 300 + p, western_spot |-> 300,
                     premium_usd |-> p,
                     premium_pct |-> (p * 10) \div 3] : p \in ShanghaiLevels} :
        /\ run.pc = "fetch_shanghai_premium"
        /\ IF ~Raised(outcome) /\ Truthy(outcome)
           THEN /\ insert_shanghai_premium(outcome.shanghai_spot,
                                           outcome.western_spot,
                                           outcome.premium_usd,
                                           outcome.premium_pct)
                /\ UNCHANGED <<inventory, spot_prices, premiums, margins,
                               lease_rates>>
           ELSE /\ NothingStored("fetch_shanghai_premium")
                /\ UNCHANGED <<inventory, spot_prices, premiums, margins,
                               lease_rates, shanghai_premium>>
        /\ Block("shanghai_premium", outcome, outcome,
                 "Failed to fetch Shanghai premium", "Shanghai premium: ",
                 "fetched")
        /\ UNCHANGED <<now, metrics_snapshot, cycle, files, observations_seen>>

fetch_all_data ==
    \/ FetchSpotPrice
    \/ FetchInventory
    \/ FetchMargins
    \/ FetchPremiums
    \/ FetchLeaseRates
    \/ FetchShanghaiPremium

(***************************************************************************)
(* main.py: main.  One run of the program from an empty database: the      *)
(* arguments are parsed and the database initialized, fetch_all_data and   *)
(* process_and_export run unless the arguments skip them, and the exit     *)
(* code is returned (print_summary changes nothing).                       *)
(***************************************************************************)
Args == [fetch_only : BOOLEAN, export_only : BOOLEAN, init_db : BOOLEAN]

\* args = parser.parse_args(); init_database(); if args.init_db: return 0;
\* fetch_results = {'errors': []}
StartMain ==
    \E args \in Args :
        /\ run.pc = "idle"
        /\ run' = [pc |-> IF args.init_db THEN "returned"
                          ELSE IF ~args.export_only THEN "fetch_spot_price"
                          ELSE "fetched",
                   args |-> args,
                   fetch_results |-> IF ~args.init_db /\ ~args.export_only
                                     THEN NoResults ELSE [errors |-> <<>>],
                   invoked |-> <<>>,
                   inputs |-> <<>>,
                   outcomes |-> <<>>,
                   snapshots |-> Len(metrics_snapshot)]
        /\ call' = [fn |-> "main"]
        /\ pc' = IF args.init_db THEN "returned" ELSE "called"
        /\ ret' = IF args.init_db THEN 0 ELSE NoReturn
        /\ UNCHANGED <<inventory, now, spot_prices, premiums, margins,
                       lease_rates, shanghai_premium, metrics_snapshot, cycle,
                       files, observations_seen>>

\* if not args.fetch_only: success = process_and_export(logger)
ProcessStep ==
    /\ run.pc = "fetched"
    /\ ~run.args.fetch_only
    /\ cycle.pc \notin {"done", "failed"}
    /\ process_and_export

\* a run that forgets the failed export
ExportErrors_ignored(errors, success) == errors

\* if not success: fetch_results['errors'].append("Export failed")
ExportErrors(errors, success) ==
    IF ~success THEN Append(errors, <<"Export failed">>) ELSE errors

\* if fetch_results['errors']: return 1 ... return 0
ExitCode(errors) == IF errors # <<>> THEN 1 ELSE 0

ReturnMain ==
    /\ run.pc = "fetched"
    /\ run.args.fetch_only \/ cycle.pc \in {"done", "failed"}
    /\ LET errors == IF run.args.fetch_only
                     THEN run.fetch_results.errors
                     ELSE ExportErrors(run.fetch_results.errors,
                                       cycle.pc = "done")
       IN  /\ run' = [run EXCEPT !.pc = "returned",
                                 !.fetch_results.errors = errors]
           /\ ret' = ExitCode(errors)
    /\ call' = [fn |-> "main"]
    /\ pc' = "returned"
    /\ UNCHANGED <<inventory, now, spot_prices, premiums, margins, lease_rates,
                   shanghai_premium, metrics_snapshot, cycle, files,
                   observations_seen>>

main ==
    \/ StartMain
    \/ fetch_all_data
    \/ ProcessStep
    \/ ReturnMain

SpecMain == InitSnapshot /\ [][main]_vars

(***************************************************************************)
(* C21.  Every update cycle that reaches process_and_export and completes  *)
(* it successfully appends exactly one Snapshot row to metrics_snapshot    *)
(* (never two, although both process_and_export and export_all are able to *)
(* create one); a cycle run with --fetch-only or --init-db appends none.   *)
(***************************************************************************)
SnapshotsAppended == Len(metrics_snapshot) - run.snapshots

C21_OneSnapshotPerCycle ==
    /\ run.pc # "idle" => SnapshotsAppended <= 1
    /\ run.pc = "returned" =>
          /\ run.args.init_db \/ run.args.fetch_only => SnapshotsAppended = 0
          /\ ~run.args.init_db /\ ~run.args.fetch_only /\ cycle.pc = "done"
                => SnapshotsAppended = 1

\* a complete cycle that fetched a spot price and stored its one Snapshot
C21_Witness ==
    /\ run.pc = "returned"
    /\ ~run.args.init_db /\ ~run.args.fetch_only /\ ~run.args.export_only
    /\ cycle.pc = "done"
    /\ files.latest # <<>>
    /\ Len(metrics_snapshot) = 1
    /\ metrics_snapshot[1].spot_price # <<>>

(***************************************************************************)
(* scripts/db.py: cleanup_old_data.  DELETE FROM <table> WHERE timestamp   *)
(* < cutoff compares the timestamps as text, as get_historical_data does:  *)
(* a row goes when its day is not later than the cutoff's day.  The list   *)
(* of tables leaves out shanghai_premium.                                  *)
(***************************************************************************)
DaysToKeep == 365
StorageDays == {1, 366}

Kept(rows, cutoff) == SelectSeq(rows, LAMBDA row : AtOrAfterCutoff(row, cutoff))

cleanup_old_data(days_to_keep) ==
    LET cutoff == now - days_to_keep
    IN  /\ spot_prices' = Kept(spot_prices, cutoff)
        /\ premiums' = Kept(premiums, cutoff)
        /\ inventory' = Kept(inventory, cutoff)
        /\ margins' = Kept(margins, cutoff)
        /\ lease_rates' = Kept(lease_rates, cutoff)
        /\ metrics_snapshot' = Kept(metrics_snapshot, cutoff)
        /\ call' = [fn |-> "cleanup_old_data", days_to_keep |-> days_to_keep]
        /\ ret' = NoReturn
        /\ pc' = "returned"

\* the history keeps one entry per row left in metrics_snapshot
CleanupOldData ==
    /\ cleanup_old_data(DaysToKeep)
    /\ observations_seen' =
          SubSeq(observations_seen,
                 Len(metrics_snapshot)
                    - Len(Kept(metrics_snapshot, now - DaysToKeep)) + 1,
                 Len(observations_seen))
    /\ UNCHANGED <<now, shanghai_premium, cycle, files, run>>

AdvanceClockStorage ==
    \E d \in StorageDays :
        /\ d > now
        /\ now' = d
        /\ call' = NoCall
        /\ pc' = "idle"
        /\ ret' = NoReturn
        /\ UNCHANGED <<inventory, rest>>

\* the storage layer's operations: the inserts, the queries (through
\* get_current_metrics) and cleanup_old_data
NextStorage ==
    \/ Observe
    \/ RunSnapshotBuilder
    \/ CallGetCurrentMetrics
    \/ CleanupOldData
    \/ AdvanceClockStorage

SpecStorage == InitSnapshot /\ [][NextStorage]_vars

(***************************************************************************)
(* C22.  Storage is append-only: after any sequence of the storage layer's *)
(* operations (all insert_*, all get_*, cleanup_old_data), every           *)
(* Observation and Snapshot row that was ever inserted is still present    *)
(* with unchanged field values; no operation updates or deletes a stored   *)
(* row.                                                                    *)
(***************************************************************************)
Preserved(old, new) ==
    /\ Len(new) >= Len(old)
    /\ SubSeq(new, 1, Len(old)) = old

C22_AppendOnly ==
    [][/\ Preserved(spot_prices, spot_prices')
       /\ Preserved(premiums, premiums')
       /\ Preserved(inventory, inventory')
       /\ Preserved(margins, margins')
       /\ Preserved(lease_rates, lease_rates')
       /\ Preserved(shanghai_premium, shanghai_premium')
       /\ Preserved(metrics_snapshot, metrics_snapshot')]_vars

(***************************************************************************)
(* C23.  In fetch_all_data, for every subset of the six fetchers that fail *)
(* (by returning None or by raising), every fetcher is still invoked       *)
(* exactly once in the fixed order spot, inventory, margins, premiums,     *)
(* lease rates, Shanghai premium; the function returns normally with one   *)
(* error entry per failed fetcher; and the normalization/snapshot/export   *)
(* step of the cycle still runs afterwards.                                *)
(***************************************************************************)
FetchOrder ==
    <<"spot_price", "inventory", "margins", "premiums", "lease_rates",
      "shanghai_premium">>

FetcherFailed(outcome) == Raised(outcome) \/ ~Truthy(outcome)

FailedFetchers == {i \in 1..Len(run.outcomes) : FetcherFailed(run.outcomes[i])}

Fetching == run.pc # "idle" /\ ~run.args.init_db /\ ~run.args.export_only

C23_FetchersIndependent ==
    /\ Fetching =>
          /\ run.invoked = SubSeq(FetchOrder, 1, Len(run.invoked))
          /\ run.pc \in {"fetched", "returned"} => run.invoked = FetchOrder
          /\ run.pc # "returned" =>
                Len(run.fetch_results.errors) = Cardinality(FailedFetchers)
          /\ \A key \in {run.invoked[i] : i \in 1..Len(run.invoked)} :
                Truthy(run.fetch_results[key])
                   <=> \E i \in 1..Len(run.invoked) :
                          /\ run.invoked[i] = key
                          /\ ~FetcherFailed(run.outcomes[i])
    /\ Fetching /\ run.pc = "returned" /\ ~run.args.fetch_only =>
          cycle.pc \in {"done", "failed"}

\* all six fetchers failed, two of them by raising, and the cycle still
\* exported
C23_Witness ==
    /\ Fetching
    /\ run.pc = "returned"
    /\ Cardinality(FailedFetchers) = 6
    /\ Cardinality({i \in FailedFetchers : Raised(run.outcomes[i])}) >= 2
    /\ Len(run.fetch_results.errors) = 6
    /\ cycle.pc = "done"
    /\ files.latest # <<>>

(***************************************************************************)
(* C24.  Every ThresholdSet in the configured THRESHOLDS table has         *)
(* breakpoints strictly monotonic in the order of increasing severity      *)
(* (higher-is-worse: normal_low < normal_high < stressed < extreme;        *)
(* lower-is-worse: healthy > normal_low > stressed > critical; margin      *)
(* stability: stable > normalizing > volatile), and no operation of the    *)
(* program changes the table at runtime: the breakpoints a normalizer      *)
(* reports in its result are those of the table, whenever it is called.    *)
(***************************************************************************)
\* the keys of a set in the order of increasing severity
HigherIsWorseKeys ==
    <<"normal_low", "normal_high", "watch", "elevated", "stressed", "extreme">>
LowerIsWorseKeys == <<"healthy", "normal_low", "stressed", "critical">>
StabilityKeys == <<"stable", "normalizing", "volatile">>

SeverityOrder(t) ==
    IF "healthy" \in DOMAIN t THEN LowerIsWorseKeys
    ELSE IF "stable" \in DOMAIN t THEN StabilityKeys
    ELSE HigherIsWorseKeys

\* the breakpoints of t, least severe first
Breakpoints(t) ==
    LET order == SeverityOrder(t)
        present == SelectSeq(order, LAMBDA k : k \in DOMAIN t)
    IN  [i \in 1..Len(present) |-> t[present[i]]]

StrictlyMonotonic(t) ==
    LET b == Breakpoints(t)
    IN  /\ Len(b) = Cardinality(DOMAIN t)
        /\ IF "healthy" \in DOMAIN t \/ "stable" \in DOMAIN t
           THEN \A i \in 1..(Len(b) - 1) : b[i] > b[i + 1]
           ELSE \A i \in 1..(Len(b) - 1) : b[i] < b[i + 1]

\* the breakpoints a result of normalize_margin reports
ReportedBreakpoints ==
    <<ret.threshold_stable>>
    \o (IF "pct_threshold_normal" \in DOMAIN ret
        THEN ret.pct_threshold_normal ELSE <<>>)

C24_ThresholdsMonotonic ==
    /\ \A name \in DOMAIN THRESHOLDS : StrictlyMonotonic(THRESHOLDS[name])
    /\ MarginReturned =>
          \E n \in {1, 3} :
              ReportedBreakpoints
                 = SubSeq(<<THRESHOLDS["margin_stability_days"]["stable"],
                            THRESHOLDS["margin_pct_notional"]["normal_low"],
                            THRESHOLDS["margin_pct_notional"]["normal_high"]>>,
                          1, n)

\* normalize_margin has read two sets of the table and reports their
\* breakpoints in its result
C24_Witness ==
    /\ MarginReturned
    /\ "pct_threshold_normal" \in DOMAIN ret
    /\ ret.pct_threshold_normal
          = <<THRESHOLDS["margin_pct_notional"]["normal_low"],
              THRESHOLDS["margin_pct_notional"]["normal_high"]>>
    /\ ret.threshold_stable = THRESHOLDS["margin_stability_days"]["stable"]
    /\ margins # <<>>

(***************************************************************************)
(* The program started on a THRESHOLDS table whose lease_rate set is any   *)
(* set over the keys of a higher-is-worse set, well-formed or not:         *)
(* scripts/config.py is imported, main sets up and initializes the         *)
(* database (no step of it looks at the table), and the cycle calls        *)
(* normalize_lease_rate, which reads the set.                              *)
(***************************************************************************)
LeaseRateKeys == {"normal_low", "normal_high", "stressed", "extreme"}
LeaseRateSets == {t \in ThresholdSets : DOMAIN t \subseteq LeaseRateKeys}

\* normalize_lease_rate reading the set `thresholds`: thresholds['normal_high']
\* and thresholds['normal_low'] are read unconditionally
normalize_lease_rate_with(thresholds, rate_pct) ==
    IF "normal_high" \notin DOMAIN thresholds \/ "normal_low" \notin DOMAIN thresholds
    THEN Raise("KeyError")
    ELSE LET status == determine_status(rate_pct, thresholds, TRUE)
         IN  [metric |-> "lease_rate",
              value |-> rate_pct,
              unit |-> "%",
              status_color |-> status[1],
              status_label |-> status[2],
              is_normalizing |-> (rate_pct <= thresholds["normal_high"]),
              threshold_normal |->
                 <<thresholds["normal_low"], thresholds["normal_high"]>>,
              description |-> "Cost to borrow physical silver"]

\* from scripts.config import THRESHOLDS
ImportConfig ==
    \E lease_rate \in LeaseRateSets :
        /\ run.pc = "idle"
        /\ run' = [pc |-> "imported", lease_rate |-> lease_rate]
        /\ call' = NoCall
        /\ pc' = "idle"
        /\ ret' = NoReturn
        /\ UNCHANGED <<inventory, now, spot_prices, premiums, margins,
                       lease_rates, shanghai_premium, metrics_snapshot, cycle,
                       files, observations_seen>>

\* main up to init_database()
Startup ==
    /\ run.pc = "imported"
    /\ run' = [run EXCEPT !.pc = "started"]
    /\ call' = [fn |-> "main"]
    /\ pc' = "called"
    /\ ret' = NoReturn
    /\ UNCHANGED <<inventory, now, spot_prices, premiums, margins, lease_rates,
                   shanghai_premium, metrics_snapshot, cycle, files,
                   observations_seen>>

\* metrics['lease_rate'] = normalize_lease_rate(...) in get_current_metrics
NormalizeLeaseRate ==
    \E rate_pct \in ClassifyValues :
        /\ run.pc \in {"started", "in_cycle"}
        /\ run' = [run EXCEPT !.pc = "in_cycle"]
        /\ call' = [fn |-> "normalize_lease_rate", value |-> rate_pct]
        /\ pc' = "returned"
        /\ ret' = normalize_lease_rate_with(run.lease_rate, rate_pct)
        /\ UNCHANGED <<inventory, now, spot_prices, premiums, margins,
                       lease_rates, shanghai_premium, metrics_snapshot, cycle,
                       files, observations_seen>>

NextConfig ==
    \/ ImportConfig
    \/ Startup
    \/ NormalizeLeaseRate

SpecConfig == InitSnapshot /\ [][NextConfig]_vars

(***************************************************************************)
(* C25.  A ThresholdSet that is malformed (breakpoints not strictly        *)
(* ordered, or missing a key that a normalizer reads unconditionally, such *)
(* as normal_high for lease rate or healthy for inventory) is rejected by  *)
(* configuration validation at startup, before any normalizer is invoked;  *)
(* it never surfaces as a failure inside a normalizer in the middle of an  *)
(* update cycle.                                                           *)
(***************************************************************************)
Malformed(t) ==
    \/ ~StrictlyMonotonic(t)
    \/ "normal_high" \notin DOMAIN t
    \/ "normal_low" \notin DOMAIN t

C25_MalformedRejectedAtStartup ==
    /\ run.pc \in {"started", "in_cycle"} => ~Malformed(run.lease_rate)
    /\ run.pc = "in_cycle" => ~Raised(ret)

(***************************************************************************)
(* C26.  fetch_spot_price tries Kitco first and queries Yahoo Finance only *)
(* as a backup when Kitco yields no price; the first source that succeeds  *)
(* short-circuits the chain, at most one spot-price row is inserted per    *)
(* call, and None is returned only when both sources fail.                 *)
(***************************************************************************)
SpotFetched == Fetching /\ Len(run.inputs) >= 1

C26_KitcoFirstYahooBackup ==
    SpotFetched =>
        LET asked == run.inputs[1]
            data == run.outcomes[1]
        IN  /\ asked.tried[1] = "kitco"
            /\ (\E i \in 1..Len(asked.tried) : asked.tried[i] = "yahoo_finance")
                  => asked.kitco = None
            /\ asked.kitco # None => data = asked.kitco
            /\ Len(spot_prices) - asked.rows <= 1
            /\ data = None <=> (asked.yahoo = None /\ asked.kitco = None)

(***************************************************************************)
(* C27.  For every metrics structure produced by get_current_metrics (any  *)
(* subset of metrics present, shanghai_premium possibly null),             *)
(* create_snapshot does not raise and persists exactly one row in which    *)
(* each value field and each status field equals the corresponding         *)
(* metric's value and status_color when that metric is present and is null *)
(* when it is absent, and composite_score equals the composite's score.    *)
(***************************************************************************)
\* metric, its value column, its status column (<<>>: it has none)
SnapshotFields ==
    {<<"spot_price", "spot_price", <<>>>>,
     <<"premium", "premium_pct", <<"status_premiums">>>>,
     <<"inventory", "inventory_total_moz", <<"status_inventory">>>>,
     <<"margin", "margin_initial", <<"status_margins">>>>,
     <<"lease_rate", "lease_rate_proxy", <<"status_lease">>>>,
     <<"shanghai_premium", "shanghai_premium_usd", <<"status_shanghai">>>>}

Present(metrics, name) == name \in DOMAIN metrics /\ metrics[name] # None

SnapshotCreated == run.pc # "idle" /\ cycle.pc \in {"have_snapshot", "done"}

C27_SnapshotMirrorsMetrics ==
    SnapshotCreated =>
        LET metrics == cycle.metrics
            row == metrics_snapshot[cycle.snapshot_id]
        IN  /\ SnapshotsAppended = 1
            /\ cycle.snapshot_id = Len(metrics_snapshot)
            /\ \A f \in SnapshotFields :
                  IF Present(metrics, f[1])
                  THEN /\ row[f[2]] = <<metrics[f[1]]["value"]>>
                       /\ f[3] # <<>> =>
                             row[f[3][1]] = <<metrics[f[1]]["status_color"]>>
                  ELSE /\ row[f[2]] = <<>>
                       /\ f[3] # <<>> => row[f[3][1]] = <<>>
            /\ row.composite_score = <<metrics["composite"]["score"]>>

\* a Snapshot of metrics with a margin and a premium present, inventory
\* absent and shanghai_premium null, the margin and the lease rate of
\* different colors
C27_Witness ==
    /\ SnapshotCreated
    /\ Present(cycle.metrics, "margin")
    /\ Present(cycle.metrics, "premium")
    /\ ~Present(cycle.metrics, "inventory")
    /\ "shanghai_premium" \in DOMAIN cycle.metrics
    /\ cycle.metrics["shanghai_premium"] = None
    /\ metrics_snapshot[cycle.snapshot_id].status_margins
          # metrics_snapshot[cycle.snapshot_id].status_lease
    /\ metrics_snapshot[cycle.snapshot_id].status_shanghai = <<>>

(***************************************************************************)
(* C28.  main returns exit code 1 exactly when at least one error was      *)
(* recorded during the run (a fetcher that returned nothing or raised, or  *)
(* a failed process/export step) and 0 otherwise; an exception inside      *)
(* process_and_export is turned into the 'Export failed' error instead of  *)
(* propagating; with --init-db main returns 0 without invoking any         *)
(* fetcher; with --export-only no fetcher is invoked.                      *)
(***************************************************************************)
ExportFailed == ~run.args.fetch_only /\ cycle.pc = "failed"

C28_ExitCodeReportsErrors ==
    /\ run.pc # "idle" /\ (run.args.init_db \/ run.args.export_only) =>
          run.invoked = <<>>
    /\ run.pc = "returned" =>
          /\ pc = "returned" /\ call.fn = "main" /\ ret \in {0, 1}
          /\ run.args.init_db => ret = 0
          /\ ~run.args.init_db =>
                /\ ret = 1 <=> (FailedFetchers # {} \/ ExportFailed)
                /\ ExportFailed =>
                      run.fetch_results.errors[Len(run.fetch_results.errors)]
                         = <<"Export failed">>

\* every fetcher had data, process_and_export raised, and main returned 1
C28_Witness ==
    /\ run.pc = "returned"
    /\ Fetching
    /\ FailedFetchers = {}
    /\ ExportFailed
    /\ run.fetch_results.errors = <<<<"Export failed">>>>
    /\ ret = 1

(***************************************************************************)
(* C29.  Whenever the CME margins page is fetched and parse_margins_table  *)
(* extracts a silver margin record from it, fetch_cme_margins completes    *)
(* without raising, inserts exactly one margins row whose initial_margin   *)
(* is the parsed value, and returns a result carrying that value; the      *)
(* hard-coded estimate of 45000 is used only when no margin could be       *)
(* extracted from the page.                                                *)
(***************************************************************************)
MarginsFetched == Fetching /\ Len(run.inputs) >= 3

C29_ParsedMarginIsStored ==
    MarginsFetched =>
        LET html == run.inputs[3].html
            rows == run.inputs[3].rows
            result == run.outcomes[3]
        IN  html # None =>
              /\ html.parsed # <<>> =>
                    /\ ~Raised(result)
                    /\ Len(margins) = rows + 1
                    /\ margins[Len(margins)].initial_margin = html.parsed[1]
                    /\ result.initial_margin = html.parsed[1]
              /\ (~Raised(result) /\ result.initial_margin = EstimatedInitial) =>
                    html.parsed = <<>> /\ Len(html.candidates) < 2

(***************************************************************************)
(* C30: the colour and the flag of normalize_margin agree                  *)
(***************************************************************************)

\* C30: for every initial margin, spot price (present or absent) and
\* days_since_change, the result of normalize_margin has status_color red
\* if and only if is_normalizing is false: a normalizing margin is green or
\* yellow, a margin that is not normalizing is red.
C30_RedIffNotNormalizing ==
    MarginReturned =>
        /\ ~Raised(ret)
        /\ ret.status_color \in {"green", "yellow", "red"}
        /\ ret.is_normalizing \in BOOLEAN
        /\ ret.status_color = "red" <=> ~ret.is_normalizing
        /\ ret.is_normalizing => ret.status_color \in {"green", "yellow"}

\* a margin stable for 14 to 29 days (yellow, normalizing on stability alone)
\* that the extreme share of notional turns red and not normalizing
C30_Witness ==
    /\ MarginReturned
    /\ call.spot_price # <<>>
    /\ call.spot_price[1] # 0
    /\ ret.days_since_change >= 14
    /\ ret.days_since_change < 30
    /\ StabilityStatus(ret.days_since_change) = <<"yellow", "Stabilizing", TRUE>>
    /\ MarginGot = <<"red", "Elevated (High %)", FALSE>>

=============================================================================
